---- MODULE Spec2Model ----
(***************************************************************************)
(* Model of the standings generator of epl-predictor                      *)
(* (scripts/generate_scoreboard.py): the tables read by _load_inputs, the *)
(* scoring of _score_predictions, the aggregation and ranking of          *)
(* _build_standings and the writing of the sheet by main.                 *)
(*                                                                         *)
(* Strings that are compared or normalised (user names, user ids) are     *)
(* sequences of code points; a missing value (NaN, pd.NA, an empty CSV    *)
(* field) is the empty sequence and a present optional value v is <<v>>.  *)
(* A cell of a goal or round column is <<n>> for the integer n, <<n, t>>  *)
(* for the number n + t/10 that is not an integer (1.5 is <<1, 5>>), the  *)
(* empty sequence when missing, and the code points of its text (three or *)
(* more) when it is no number.                                            *)
(***************************************************************************)
EXTENDS Integers, Sequences, FiniteSets, TLC

VARIABLES pc, use_user_id, predictions, results, scored, warning,
          standings, output, exit_status, error

\* import_text_predictions.main: the blocks of the text file still to be
\* read, the rows of the results file, args.round, the rows of the
\* predictions file, args.clear_users, and the locals of main.
VARIABLES ipc, blocks, results_data, round_override, existing_rows,
          clear_users, next_user_id, name_to_id, new_rows, skipped_matches,
          ambiguous_fixtures, combined, import_status

scoreboard_vars == <<pc, use_user_id, predictions, results, scored, warning,
                     standings, output, exit_status, error>>

import_vars == <<ipc, blocks, results_data, round_override, existing_rows,
                 clear_users, next_user_id, name_to_id, new_rows,
                 skipped_matches, ambiguous_fixtures, combined, import_status>>

\* import_text_results.main: the rows of the results file (args.results_csv),
\* the arguments of the run in progress (the lines of args.text_file,
\* args.round, args.match_prefix) and the status the last run ended with.
VARIABLES results_csv, results_args, results_status

\* update_from_text.main: the position in main, its arguments, and the
\* status main returned.
VARIABLES upc, update_args, update_status

results_vars == <<results_csv, results_args, results_status>>

update_vars == <<upc, update_args, update_status>>

vars == <<scoreboard_vars, import_vars, results_vars, update_vars>>

(***************************************************************************)
(* Bounds of the model.                                                    *)
(***************************************************************************)
MaxPreds == 3
MaxResults == 2
MaxGoals == 3

(***************************************************************************)
(* Missing values and small helpers on sequences.                         *)
(***************************************************************************)
NA == <<>>
Some(v) == <<v>>
IsNA(v) == v = NA
Val(v) == v[1]

Range(s) == {s[i] : i \in DOMAIN s}

RECURSIVE SumSeq(_)
SumSeq(s) == IF s = <<>> THEN 0 ELSE Head(s) + SumSeq(Tail(s))

RECURSIVE Flatten(_)
Flatten(ss) == IF ss = <<>> THEN <<>> ELSE Head(ss) \o Flatten(Tail(ss))

Bool2Int(b) == IF b THEN 1 ELSE 0

\* DataFrame.drop_duplicates(): the first occurrence of every value is kept.
RECURSIVE DropDuplicatesFrom(_, _)
DropDuplicatesFrom(s, seen) ==
    IF s = <<>> THEN <<>>
    ELSE IF Head(s) \in seen THEN DropDuplicatesFrom(Tail(s), seen)
    ELSE <<Head(s)>> \o DropDuplicatesFrom(Tail(s), seen \cup {Head(s)})

DropDuplicates(s) == DropDuplicatesFrom(s, {})

\* Python's str ordering: lexicographic on code points, a prefix first.
RECURSIVE StrLess(_, _)
StrLess(a, b) ==
    IF b = <<>> THEN FALSE
    ELSE IF a = <<>> THEN TRUE
    ELSE IF Head(a) # Head(b) THEN Head(a) < Head(b)
    ELSE StrLess(Tail(a), Tail(b))

\* import_text_predictions._normalize_name:
\* " ".join(name.strip().lower().split()).
IsSpace(c) == c \in {9, 10, 11, 12, 13, 32}
Lower(c) == IF c \in 65..90 THEN c + 32 ELSE c

RECURSIVE NormalizeFrom(_, _, _)
NormalizeFrom(s, acc, gap) ==
    IF s = <<>> THEN acc
    ELSE IF IsSpace(Head(s)) THEN NormalizeFrom(Tail(s), acc, acc # <<>>)
    ELSE NormalizeFrom(Tail(s),
                       acc \o (IF gap THEN <<32>> ELSE <<>>) \o <<Lower(Head(s))>>,
                       FALSE)

NormalizeName(name) == NormalizeFrom(name, <<>>, FALSE)

\* sorted() of a set of integers.
RECURSIVE SortedSeq(_)
SortedSeq(S) ==
    IF S = {} THEN <<>>
    ELSE LET m == CHOOSE x \in S : \A y \in S : x <= y
         IN <<m>> \o SortedSeq(S \ {m})

(***************************************************************************)
(* The input tables.  A predictions file holds, per row, a match id, the  *)
(* prediction's own copy of the round, the user (and, when the file has a *)
(* user_id column, the user id, empty for rows written before ids were    *)
(* introduced) and the predicted score.  A results file holds a match id, *)
(* its round and the final score.                                          *)
(***************************************************************************)
Name_alice == <<97, 108, 105, 99, 101>>
Name_Bob == <<66, 111, 98>>
Name_AliceSp == <<65, 108, 105, 99, 101, 32>>
UserNames == <<Name_alice, Name_Bob, Name_AliceSp>>

Id_U1 == <<85, 49>>
Id_U2 == <<85, 50>>
\* The id column of the three users: the third one has an empty id field.
UserIds == <<Id_U1, Id_U2, NA>>

MatchIds == <<"M1", "M2">>
\* The round each fixture is played in, and the round the predictions
\* carry for it.
ResultRound == [m \in {"M1", "M2"} |-> IF m = "M1" THEN 1 ELSE 2]
PredRound == [m \in {"M1", "M2"} |-> 1]
HomeTeam == [m \in {"M1", "M2"} |-> IF m = "M1" THEN "Arsenal" ELSE "Chelsea"]
AwayTeam == [m \in {"M1", "M2"} |-> IF m = "M1" THEN "Everton" ELSE "Fulham"]

PredScores == << <<1, 0>>, <<0, 0>> >>
ResultScores == << <<1, 0>>, <<1, 1>> >>

PredictionRow(u, m, s, withId) ==
    [match_id |-> MatchIds[m],
     round |-> Some(PredRound[MatchIds[m]]),
     user_id |-> IF withId THEN UserIds[u] ELSE NA,
     user |-> UserNames[u],
     home_team |-> Some(HomeTeam[MatchIds[m]]),
     away_team |-> Some(AwayTeam[MatchIds[m]]),
     predicted_home_goals |-> Some(PredScores[s][1]),
     predicted_away_goals |-> Some(PredScores[s][2])]

ResultRow(m, s) ==
    [match_id |-> MatchIds[m],
     round |-> Some(ResultRound[MatchIds[m]]),
     home_team |-> Some(HomeTeam[MatchIds[m]]),
     away_team |-> Some(AwayTeam[MatchIds[m]]),
     home_goals |-> Some(ResultScores[s][1]),
     away_goals |-> Some(ResultScores[s][2])]

PredIndex == (1..Len(UserNames)) \X (1..Len(MatchIds)) \X (1..Len(PredScores))
ResultIndex == (1..Len(MatchIds)) \X (1..Len(ResultScores))

RankP(i) == ((i[1] * Len(MatchIds)) + i[2]) * Len(PredScores) + i[3]
RankR(i) == (i[1] * Len(ResultScores)) + i[2]

\* The files the model reads: every table of at most MaxPreds (MaxResults)
\* rows, one representative per multiset of prediction rows and per set of
\* distinct result rows.
PredTables(withId) ==
    UNION {{[k \in 1..n |-> PredictionRow(t[k][1], t[k][2], t[k][3], withId)] :
              t \in {x \in [1..n -> PredIndex] :
                       \A k \in 1..(n - 1) : RankP(x[k]) <= RankP(x[k + 1])}} :
           n \in 0..MaxPreds}

ResultTables ==
    UNION {{[k \in 1..n |-> ResultRow(t[k][1], t[k][2])] :
              t \in {x \in [1..n -> ResultIndex] :
                       \A k \in 1..(n - 1) : RankR(x[k]) < RankR(x[k + 1])}} :
           n \in 0..MaxResults}

Goals == 0..MaxGoals

(***************************************************************************)
(* _winner_sign and the scoring of one merged row.                        *)
(***************************************************************************)
WinnerSign(diff) ==
    IF diff > 0 THEN "H" ELSE IF diff < 0 THEN "A" ELSE "D"

\* RowPoints with the winner tested before the goal difference.
RowPoints_WinnerFirst(row) ==
    IF row.is_exact THEN 4
    ELSE IF row.has_winner THEN 1
    ELSE IF row.has_winner /\ row.has_diff THEN 2
    ELSE 0

\* RowPoints with the second branch taken for the right winner alone.
RowPoints_TwoForWinner(row) ==
    IF row.is_exact THEN 4
    ELSE IF row.has_winner THEN 2
    ELSE 0

RowPoints(row) ==
    IF row.is_exact THEN 4
    ELSE IF row.has_winner /\ row.has_diff THEN 2
    ELSE IF row.has_winner THEN 1
    ELSE 0

\* ScoreRow with has_diff comparing the sizes of the goal differences.
ScoreRow_AbsDiff(m) ==
    LET actual_diff == m.home_goals - m.away_goals
        predicted_diff == m.predicted_home_goals - m.predicted_away_goals
        flags == [is_exact |-> (m.predicted_home_goals = m.home_goals)
                               /\ (m.predicted_away_goals = m.away_goals),
                  has_winner |-> WinnerSign(predicted_diff) = WinnerSign(actual_diff),
                  has_diff |-> (predicted_diff = actual_diff)
                              \/ (predicted_diff = -actual_diff)]
    IN m @@ flags @@
       [actual_diff |-> actual_diff,
        predicted_diff |-> predicted_diff,
        actual_winner |-> WinnerSign(actual_diff),
        predicted_winner |-> WinnerSign(predicted_diff),
        points |-> RowPoints(flags)]

\* Lines 155-176: the derived columns of a merged row with a result.
ScoreRow(m) ==
    LET actual_diff == m.home_goals - m.away_goals
        predicted_diff == m.predicted_home_goals - m.predicted_away_goals
        flags == [is_exact |-> (m.predicted_home_goals = m.home_goals)
                               /\ (m.predicted_away_goals = m.away_goals),
                  has_winner |-> WinnerSign(predicted_diff) = WinnerSign(actual_diff),
                  has_diff |-> predicted_diff = actual_diff]
    IN m @@ flags @@
       [actual_diff |-> actual_diff,
        predicted_diff |-> predicted_diff,
        actual_winner |-> WinnerSign(actual_diff),
        predicted_winner |-> WinnerSign(predicted_diff),
        points |-> RowPoints(flags)]

(***************************************************************************)
(* _score_predictions.                                                     *)
(***************************************************************************)
\* Lines 108 and 226: the columns that identify a participant.
ParticipantKey(row, withId) ==
    IF withId THEN <<row.user_id, row.user>> ELSE <<row.user>>

\* Lines 109-113 and 134-138: the distinct participants of a table, in order
\* of first appearance.
Participants(rows, withId) ==
    DropDuplicates([i \in DOMAIN rows |-> ParticipantKey(rows[i], withId)])

\* Lines 115-123: one row of the left merge, for a prediction and one result
\* row with its match_id, or for a prediction without any.
MergedRow(p, hit) ==
    [match_id |-> Some(p.match_id),
     round_pred |-> p.round,
     home_team_pred |-> p.home_team,
     away_team_pred |-> p.away_team,
     user_id |-> p.user_id,
     user |-> p.user,
     predicted_home_goals |-> p.predicted_home_goals,
     predicted_away_goals |-> p.predicted_away_goals,
     round |-> IF hit = <<>> THEN NA ELSE hit[1].round,
     home_team |-> IF hit = <<>> THEN NA ELSE hit[1].home_team,
     away_team |-> IF hit = <<>> THEN NA ELSE hit[1].away_team,
     home_goals |-> IF hit = <<>> THEN NA ELSE hit[1].home_goals,
     away_goals |-> IF hit = <<>> THEN NA ELSE hit[1].away_goals]

\* MergeLeft as an inner join: predictions without a result leave no row.
MergeLeft_Inner(preds, res) ==
    Flatten([i \in DOMAIN preds |->
        LET hits == SelectSeq(res, LAMBDA r : r.match_id = preds[i].match_id)
        IN [j \in DOMAIN hits |-> MergedRow(preds[i], <<hits[j]>>)]])

\* Line 123: predictions.merge(results, on="match_id", how="left"): every
\* prediction, in order, once per result row that carries its match_id,
\* and once with missing result columns when there is none.
MergeLeft(preds, res) ==
    Flatten([i \in DOMAIN preds |->
        LET hits == SelectSeq(res, LAMBDA r : r.match_id = preds[i].match_id)
        IN IF hits = <<>> THEN <<MergedRow(preds[i], <<>>)>>
           ELSE [j \in DOMAIN hits |-> MergedRow(preds[i], <<hits[j]>>)]])

\* Line 125.
MissingMask(row) == IsNA(row.home_goals) \/ IsNA(row.away_goals)

\* Lines 142-144: fillna(): the result's value, or the prediction's copy
\* where the result has none.
FillNA(value, fallback) == IF IsNA(value) THEN fallback ELSE value

\* FillRow with the prediction's copy taken first.
FillRow_PredFirst(row) ==
    [row EXCEPT !.round = FillNA(row.round_pred, @),
                !.home_team = FillNA(row.home_team_pred, @),
                !.away_team = FillNA(row.away_team_pred, @)]

FillRow(row) ==
    [row EXCEPT !.round = FillNA(@, row.round_pred),
                !.home_team = FillNA(@, row.home_team_pred),
                !.away_team = FillNA(@, row.away_team_pred)]

\* Line 73: pd.to_numeric(errors="coerce") yields a number for a numeric
\* cell and NaN for a missing cell or a text.
IsNumeric(cell) == Len(cell) \in {1, 2}

\* Line 80: series % 1 is 0 for an integer of either sign.
IsInteger(cell) == Len(cell) = 1

\* Lines 146-153: the columns that are coerced, in order.
CoercedColumns ==
    <<"predicted_home_goals", "predicted_away_goals", "home_goals", "away_goals",
      "round">>

\* Lines 72-85: the error _coerce_int_column raises for a column of the
\* merged rows, or NA when it raises none.
CoerceColumnError(rows, column) ==
    IF \E i \in DOMAIN rows : ~IsNumeric(rows[i][column])
    THEN <<"Merged data has non-numeric values in", column>>
    ELSE IF \E i \in DOMAIN rows : ~IsInteger(rows[i][column])
    THEN <<"Merged data has non-integer values in", column>>
    ELSE NA

\* Lines 146-153: the first error of the coerced columns, or NA.
CoerceError(rows) ==
    LET failing == SelectSeq(CoercedColumns,
                             LAMBDA c : ~IsNA(CoerceColumnError(rows, c)))
    IN IF failing = <<>> THEN NA ELSE CoerceColumnError(rows, Head(failing))

\* Line 86: series.astype(int) on the goal columns of a row whose cells
\* are integers; the round stays an optional value, as placeholder rows
\* have none.
CoerceRow(row) ==
    [row EXCEPT !.predicted_home_goals = Val(@),
                !.predicted_away_goals = Val(@),
                !.home_goals = Val(@),
                !.away_goals = Val(@)]

\* Lines 192-218: the row added for a participant without any scored row.
PlaceholderRow(part, withId) ==
    [match_id |-> NA,
     round_pred |-> NA,
     home_team_pred |-> Some(""),
     away_team_pred |-> Some(""),
     home_team |-> Some(""),
     away_team |-> Some(""),
     user_id |-> IF withId THEN part[1] ELSE NA,
     user |-> IF withId THEN part[2] ELSE part[1],
     predicted_home_goals |-> 0,
     predicted_away_goals |-> 0,
     home_goals |-> 0,
     away_goals |-> 0,
     round |-> NA,
     actual_diff |-> 0,
     predicted_diff |-> 0,
     actual_winner |-> "",
     predicted_winner |-> "",
     is_exact |-> FALSE,
     has_winner |-> FALSE,
     has_diff |-> FALSE,
     points |-> 0]

\* Lines 178-190: the participants of the input without a scored row.
MissingParticipants(all_participants, matched_participants) ==
    SelectSeq(all_participants, LAMBDA k : k \notin Range(matched_participants))

\* Lines 105-221.  error: the ScoreComputationError that left the function,
\* or NA; scored is the table returned when there is none.
ScorePredictions(preds, res, withId) ==
    LET all_participants == Participants(preds, withId)
        merged0 == MergeLeft(preds, res)
        missing == SelectSeq(merged0, MissingMask)
        kept == SelectSeq(merged0, LAMBDA row : ~MissingMask(row))
        matched_participants == Participants(kept, withId)
        merged == [i \in DOMAIN kept |-> FillRow(kept[i])]
        raised == IF (kept = <<>>) /\ (all_participants = <<>>)
                  THEN <<"No predictions could be matched with results.">>
                  ELSE CoerceError(merged)
        rows == IF IsNA(raised)
                THEN [i \in DOMAIN merged |-> ScoreRow(CoerceRow(merged[i]))]
                ELSE <<>>
        missing_participants ==
            MissingParticipants(all_participants, matched_participants)
        placeholder_rows ==
            [i \in DOMAIN missing_participants |->
                PlaceholderRow(missing_participants[i], withId)]
    IN [error |-> raised,
        warning |-> DropDuplicates([i \in DOMAIN missing |-> Val(missing[i].match_id)]),
        scored |-> IF IsNA(raised) THEN rows \o placeholder_rows ELSE <<>>]

(***************************************************************************)
(* _build_standings.                                                       *)
(***************************************************************************)
\* groupby() leaves out every row with a missing value in a key column.
GroupKeys(rows, withId) ==
    {k \in {ParticipantKey(rows[i], withId) : i \in DOMAIN rows} :
        \A c \in DOMAIN k : ~IsNA(k[c])}

RowsOf(rows, withId, key) ==
    SelectSeq(rows, LAMBDA row : ParticipantKey(row, withId) = key)

\* Lines 238-240: total / max(rounds_played, 1), rounded to two decimals,
\* in hundredths.  No quotient of the model lies halfway between two
\* hundredths (that needs a rounds_played divisible by 8).
AvgPointsPerRound(total_points, rounds_played) ==
    LET d == IF rounds_played < 1 THEN 1 ELSE rounds_played
    IN ((200 * total_points) + d) \div (2 * d)

\* Line 231: count() of match_id, the rows with a match_id.
PredictionsCount(mine) ==
    SumSeq([i \in DOMAIN mine |-> Bool2Int(~IsNA(mine[i].match_id))])

\* TotalPoints that adds up the points of the exact rows only.
TotalPoints_ExactOnly(mine) ==
    SumSeq([i \in DOMAIN mine |-> IF mine[i].is_exact THEN mine[i].points ELSE 0])

\* Line 232.
TotalPoints(mine) == SumSeq([i \in DOMAIN mine |-> mine[i].points])

\* Line 233.
ExactScores(mine) == SumSeq([i \in DOMAIN mine |-> Bool2Int(mine[i].is_exact)])

\* RoundsPlayed that counts the rows with a round.
RoundsPlayed_CountRows(mine) ==
    Cardinality({j \in DOMAIN mine : ~IsNA(mine[j].round)})

\* Line 234: nunique() of round, the distinct rounds that are not missing.
RoundsPlayed(mine) ==
    Cardinality({mine[i].round : i \in {j \in DOMAIN mine : ~IsNA(mine[j].round)}})

\* Lines 228-240: the aggregates of one group of the per-user groupby.
PerUser(rows, withId, key) ==
    LET mine == RowsOf(rows, withId, key)
    IN [key |-> key,
        predictions |-> PredictionsCount(mine),
        total_points |-> TotalPoints(mine),
        exact_scores |-> ExactScores(mine),
        rounds_played |-> RoundsPlayed(mine),
        avg_points_per_round |->
            AvgPointsPerRound(TotalPoints(mine), RoundsPlayed(mine))]

\* Lines 242-246: the groups of the per-round groupby, as (participant,
\* round) pairs, and the aggregates of one group.
PerRoundKeys(rows, withId) ==
    {<<ParticipantKey(rows[i], withId), Val(rows[i].round)>> :
        i \in {j \in DOMAIN rows :
                 /\ ParticipantKey(rows[j], withId) \in GroupKeys(rows, withId)
                 /\ ~IsNA(rows[j].round)}}

\* PerRound without the round in the group key.
PerRound_AllRounds(rows, withId, key, rnd) ==
    LET mine == RowsOf(rows, withId, key)
    IN [round_points |-> SumSeq([i \in DOMAIN mine |-> mine[i].points]),
        round_exact |-> SumSeq([i \in DOMAIN mine |-> Bool2Int(mine[i].is_exact)])]

PerRound(rows, withId, key, rnd) ==
    LET mine == SelectSeq(RowsOf(rows, withId, key), LAMBDA row : row.round = Some(rnd))
    IN [round_points |-> SumSeq([i \in DOMAIN mine |-> mine[i].points]),
        round_exact |-> SumSeq([i \in DOMAIN mine |-> Bool2Int(mine[i].is_exact)])]

\* RoundList in order of first appearance instead of sorted.
RoundList_Unsorted(rows, withId) ==
    DropDuplicates(Flatten([i \in DOMAIN rows |->
        IF <<ParticipantKey(rows[i], withId), rows[i].round>>
             \in {<<g[1], Some(g[2])>> : g \in PerRoundKeys(rows, withId)}
        THEN rows[i].round ELSE <<>>]))

\* Line 247.
RoundList(rows, withId) ==
    SortedSeq({g[2] : g \in PerRoundKeys(rows, withId)})

\* Lines 249-258: a sorts before b in sort_values(): total_points,
\* exact_scores and avg_points_per_round descending, then user_id and user
\* (or user alone) ascending, strings by code point.
KeyLess(a, b) ==
    IF a[1] # b[1] THEN StrLess(a[1], b[1])
    ELSE IF Len(a) > 1 THEN StrLess(a[2], b[2])
    ELSE FALSE

\* SortsBefore without exact_scores among the sort keys.
SortsBefore_NoExact(a, b) ==
    IF a.total_points # b.total_points THEN a.total_points > b.total_points
    ELSE IF a.avg_points_per_round # b.avg_points_per_round
         THEN a.avg_points_per_round > b.avg_points_per_round
    ELSE KeyLess(a.key, b.key)

SortsBefore(a, b) ==
    IF a.total_points # b.total_points THEN a.total_points > b.total_points
    ELSE IF a.exact_scores # b.exact_scores THEN a.exact_scores > b.exact_scores
    ELSE IF a.avg_points_per_round # b.avg_points_per_round
         THEN a.avg_points_per_round > b.avg_points_per_round
    ELSE KeyLess(a.key, b.key)

\* Lines 284-294: the cells of one round for one row of the table.
RoundCell(rows, withId, key, rnd) ==
    IF <<key, rnd>> \in PerRoundKeys(rows, withId)
    THEN LET g == PerRound(rows, withId, key, rnd)
         IN [exact |-> g.round_exact, points |-> g.round_points]
    ELSE [exact |-> 0, points |-> 0]

\* groupby(...).agg(...).reset_index(): one row per group, the groups in
\* ascending key order.
RECURSIVE SortedKeys(_)
SortedKeys(S) ==
    IF S = {} THEN <<>>
    ELSE LET m == CHOOSE x \in S : \A y \in S \ {x} : KeyLess(x, y)
         IN <<m>> \o SortedKeys(S \ {m})

\* Line 258: sort_values() keeps rows that compare equal in their order.
RECURSIVE InsertSorted(_, _)
InsertSorted(sorted, x) ==
    IF sorted = <<>> THEN <<x>>
    ELSE IF SortsBefore(x, Head(sorted)) THEN <<x>> \o sorted
    ELSE <<Head(sorted)>> \o InsertSorted(Tail(sorted), x)

RECURSIVE SortValues(_)
SortValues(s) ==
    IF s = <<>> THEN <<>>
    ELSE InsertSorted(SortValues(SubSeq(s, 1, Len(s) - 1)), s[Len(s)])

\* PlaceOf as a shared rank: one more than the number of rows with more points.
PlaceOf_SharedRank(sorted, n) ==
    1 + Cardinality({m \in DOMAIN sorted : sorted[m].total_points > sorted[n].total_points})

\* Line 259: Place is range(1, len(standings) + 1) over the sorted rows.
PlaceOf(sorted, n) == n

\* Lines 224-316: the rounds that get a pair of columns, in column order,
\* and the rows in table order.
BuildStandings(rows, withId) ==
    LET keys == SortedKeys(GroupKeys(rows, withId))
        per_user == [i \in DOMAIN keys |-> PerUser(rows, withId, keys[i])]
        rounds == RoundList(rows, withId)
        sorted == SortValues(per_user)
        line(n) ==
            LET u == sorted[n]
            IN [Place |-> PlaceOf(sorted, n),
                User_ID |-> IF withId THEN u.key[1] ELSE NA,
                Name |-> u.key[Len(u.key)],
                Matches |-> u.predictions,
                Exact_scores |-> u.exact_scores,
                Total_points |-> u.total_points,
                Avg_points_per_round |-> u.avg_points_per_round,
                cells |-> [r \in Range(rounds) |-> RoundCell(rows, withId, u.key, r)]]
    IN [rounds |-> rounds,
        rows |-> [n \in DOMAIN sorted |-> line(n)]]

(***************************************************************************)
(* main: the tables are read, scored, aggregated and written.  A          *)
(* ScoreComputationError ends the run with status 1 before anything is    *)
(* written.                                                                *)
(***************************************************************************)
NoStandings == [rounds |-> <<>>, rows |-> <<>>]

\* import_text_results has not been started.
ResultsIdle ==
    /\ results_csv = <<>>
    /\ results_args = <<>>
    /\ results_status = <<>>

\* update_from_text has not been started.
UpdateIdle ==
    /\ upc = "idle"
    /\ update_args = <<>>
    /\ update_status = <<>>

\* import_text_predictions has not been started.
ImportIdle ==
    /\ ipc = "idle"
    /\ blocks = <<>>
    /\ results_data = <<>>
    /\ round_override = NA
    /\ existing_rows = <<>>
    /\ clear_users = FALSE
    /\ next_user_id = 1
    /\ name_to_id = <<>>
    /\ new_rows = <<>>
    /\ skipped_matches = <<>>
    /\ ambiguous_fixtures = {}
    /\ combined = NA
    /\ import_status = NA
NoStatus == NA

Init ==
    /\ pc = "start"
    /\ use_user_id = FALSE
    /\ predictions = <<>>
    /\ results = <<>>
    /\ scored = <<>>
    /\ warning = <<>>
    /\ standings = NoStandings
    /\ output = NA
    /\ exit_status = NoStatus
    /\ error = NA
    /\ ImportIdle
    /\ ResultsIdle
    /\ UpdateIdle

\* Lines 13-29.
PREDICTION_COLUMNS ==
    {"match_id", "round", "user", "home_team", "away_team",
     "predicted_home_goals", "predicted_away_goals"}
RESULT_COLUMNS ==
    {"match_id", "round", "home_team", "away_team", "home_goals", "away_goals"}

\* The headers a file may lack.
HeaderGaps == {{}, {"round"}, {"match_id", "round"}}

\* Lines 64-69: the error _ensure_columns raises for the columns of a file,
\* or NA.
EnsureColumns(columns, required, label) ==
    IF required \ columns # {}
    THEN <<label, "is missing required columns", required \ columns>>
    ELSE NA

\* Lines 97-102: the first error of the two files, or NA.
LoadError(pred_columns, result_columns) ==
    IF ~IsNA(EnsureColumns(pred_columns, PREDICTION_COLUMNS, "Prediction file"))
    THEN EnsureColumns(pred_columns, PREDICTION_COLUMNS, "Prediction file")
    ELSE EnsureColumns(result_columns, RESULT_COLUMNS, "Result file")

\* Lines 97-102 and 371, and lines 375-377 when _load_inputs raises.
LoadInputs ==
    /\ pc = "start"
    /\ \/ /\ \E withId \in BOOLEAN :
              /\ use_user_id' = withId
              /\ predictions' \in PredTables(withId)
          /\ results' \in ResultTables
          /\ pc' = "loaded"
          /\ UNCHANGED <<exit_status, error>>
       \/ /\ \E pgap \in HeaderGaps, rgap \in HeaderGaps :
              /\ ~IsNA(LoadError(PREDICTION_COLUMNS \ pgap, RESULT_COLUMNS \ rgap))
              /\ error' = LoadError(PREDICTION_COLUMNS \ pgap, RESULT_COLUMNS \ rgap)
          /\ pc' = "failed"
          /\ exit_status' = Some(1)
          /\ UNCHANGED <<use_user_id, predictions, results>>
    /\ UNCHANGED <<scored, warning, standings, output>>
    /\ UNCHANGED <<import_vars, results_vars, update_vars>>

\* Score going on to the next stage after a ScoreComputationError.
Score_KeepGoing ==
    /\ pc = "loaded"
    /\ LET r == ScorePredictions(predictions, results, use_user_id)
       IN /\ warning' = r.warning
          /\ error' = r.error
          /\ pc' = "scored"
          /\ scored' = r.scored
    /\ UNCHANGED <<use_user_id, predictions, results, standings, output,
                   exit_status>>
    /\ UNCHANGED <<import_vars, results_vars, update_vars>>

\* Line 372, and lines 375-377 when _score_predictions raises.
Score ==
    /\ pc = "loaded"
    /\ LET r == ScorePredictions(predictions, results, use_user_id)
       IN /\ warning' = r.warning
          /\ error' = r.error
          /\ IF ~IsNA(r.error)
             THEN /\ pc' = "failed"
                  /\ exit_status' = Some(1)
                  /\ scored' = scored
             ELSE /\ pc' = "scored"
                  /\ exit_status' = exit_status
                  /\ scored' = r.scored
    /\ UNCHANGED <<use_user_id, predictions, results, standings, output>>
    /\ UNCHANGED <<import_vars, results_vars, update_vars>>

\* Line 373.
Build ==
    /\ pc = "scored"
    /\ standings' = BuildStandings(scored, use_user_id)
    /\ pc' = "built"
    /\ UNCHANGED <<use_user_id, predictions, results, scored, warning, output,
                   exit_status, error>>
    /\ UNCHANGED <<import_vars, results_vars, update_vars>>

\* Lines 374 and 379-382.
WriteExcel ==
    /\ pc = "built"
    /\ output' = Some(standings)
    /\ exit_status' = Some(0)
    /\ pc' = "done"
    /\ UNCHANGED <<use_user_id, predictions, results, scored, warning, standings,
                   error>>
    /\ UNCHANGED <<import_vars, results_vars, update_vars>>

Next == LoadInputs \/ Score \/ Build \/ WriteExcel

Spec == Init /\ [][Next]_vars

(***************************************************************************)
(* main on files of one prediction and one result for one match, whose    *)
(* round, team and goal fields may be missing, negative, fractional or    *)
(* text, and whose prediction may carry other teams and another round     *)
(* than the result.                                                        *)
(***************************************************************************)
Text_two == <<116, 119, 111>>
BadCells == {Some(-1), <<1, 5>>, Text_two, NA}
RoundCells == {Some(1), Some(2)}
HomeGoalCells == {Some(1), Some(2)}
AwayGoalCells == {Some(1)}

\* The rows of three cells with at most one cell that is no non-negative
\* integer.
CellTriples ==
    {t \in (RoundCells \cup BadCells) \X (HomeGoalCells \cup BadCells)
            \X (AwayGoalCells \cup BadCells) :
        Cardinality({k \in 1..3 : t[k] \in BadCells}) <= 1}

CellPredTables(withId) ==
    {<<>>} \cup
    {<<[match_id |-> "M1",
        round |-> t[1],
        user_id |-> IF withId THEN Id_U1 ELSE NA,
        user |-> Name_Bob,
        home_team |-> Some("Arsenal FC"),
        away_team |-> Some("Everton FC"),
        predicted_home_goals |-> t[2],
        predicted_away_goals |-> t[3]]>> : t \in CellTriples}

CellResultTables ==
    {<<[match_id |-> "M1",
        round |-> t[1],
        home_team |-> ht,
        away_team |-> at,
        home_goals |-> t[2],
        away_goals |-> t[3]]>> :
        t \in CellTriples, ht \in {Some("Arsenal"), NA}, at \in {Some("Everton"), NA}}

\* LoadInputs on those files.
LoadCells ==
    /\ pc = "start"
    /\ \/ /\ \E withId \in BOOLEAN :
              /\ use_user_id' = withId
              /\ predictions' \in CellPredTables(withId)
          /\ results' \in CellResultTables
          /\ pc' = "loaded"
          /\ UNCHANGED <<exit_status, error>>
       \/ /\ \E pgap \in HeaderGaps, rgap \in HeaderGaps :
              /\ ~IsNA(LoadError(PREDICTION_COLUMNS \ pgap, RESULT_COLUMNS \ rgap))
              /\ error' = LoadError(PREDICTION_COLUMNS \ pgap, RESULT_COLUMNS \ rgap)
          /\ pc' = "failed"
          /\ exit_status' = Some(1)
          /\ UNCHANGED <<use_user_id, predictions, results>>
    /\ UNCHANGED <<scored, warning, standings, output>>
    /\ UNCHANGED <<import_vars, results_vars, update_vars>>

NextCells == LoadCells \/ Score \/ Build \/ WriteExcel

SpecCells == Init /\ [][NextCells]_vars

(***************************************************************************)
(* The scoring of a single prediction against a single result, for every  *)
(* pair of scores with at most MaxGoals goals a side.                     *)
(***************************************************************************)
InitScoring ==
    /\ pc = "loaded"
    /\ use_user_id = FALSE
    /\ \E ph \in Goals, pa \in Goals :
         predictions = <<[match_id |-> "M1", round |-> Some(1), user_id |-> NA,
                          user |-> Name_Bob,
                          home_team |-> Some("Arsenal"),
                          away_team |-> Some("Everton"),
                          predicted_home_goals |-> Some(ph),
                          predicted_away_goals |-> Some(pa)]>>
    /\ \E ah \in Goals, aa \in Goals :
         results = <<[match_id |-> "M1", round |-> Some(1),
                      home_team |-> Some("Arsenal"),
                      away_team |-> Some("Everton"),
                      home_goals |-> Some(ah), away_goals |-> Some(aa)]>>
    /\ scored = <<>>
    /\ warning = <<>>
    /\ standings = NoStandings
    /\ output = NA
    /\ exit_status = NoStatus
    /\ error = NA
    /\ ImportIdle
    /\ ResultsIdle
    /\ UpdateIdle

NextScoring == Score \/ Build \/ WriteExcel

SpecScoring == InitScoring /\ [][NextScoring]_vars

(***************************************************************************)
(* Properties.                                                             *)
(***************************************************************************)
Scored == pc \in {"scored", "built", "done"}
Built == pc \in {"built", "done"}

(***************************************************************************)
(* Scoring and aggregation over three matches in up to three rounds: one  *)
(* user predicts 1:0 for any of the matches, another for the third match  *)
(* only, and any of the matches may lack a result.                         *)
(***************************************************************************)
RoundMatches == <<"M1", "M2", "M3">>
RoundChoices == [m \in Range(RoundMatches) |->
                    IF m = "M1" THEN {1} ELSE IF m = "M2" THEN {1, 2} ELSE {3}]
RoundScores == {<<1, 0>>, <<2, 1>>, <<2, 0>>, <<0, 0>>}

RoundsPredictionRow(user, k) ==
    [match_id |-> RoundMatches[k],
     round |-> Some(k),
     user_id |-> NA,
     user |-> user,
     home_team |-> Some("Home"),
     away_team |-> Some("Away"),
     predicted_home_goals |-> Some(1),
     predicted_away_goals |-> Some(0)]

RoundsResultRow(k, rnd, score) ==
    [match_id |-> RoundMatches[k],
     round |-> Some(rnd),
     home_team |-> Some("Home"),
     away_team |-> Some("Away"),
     home_goals |-> Some(score[1]),
     away_goals |-> Some(score[2])]

\* No result of a match, or one.
RoundsResultOptions(k) ==
    {<<>>} \cup {<<RoundsResultRow(k, rnd, score)>> :
                    rnd \in RoundChoices[RoundMatches[k]], score \in RoundScores}

InitRounds ==
    /\ pc = "loaded"
    /\ use_user_id = FALSE
    /\ \E picked \in SUBSET DOMAIN RoundMatches :
         predictions =
            Flatten([k \in DOMAIN RoundMatches |->
                        IF k \in picked THEN <<RoundsPredictionRow(Name_Bob, k)>>
                        ELSE <<>>])
            \o <<RoundsPredictionRow(Name_alice, Len(RoundMatches))>>
    /\ \E opts \in [DOMAIN RoundMatches -> UNION {RoundsResultOptions(k) :
                                                    k \in DOMAIN RoundMatches}] :
         /\ \A k \in DOMAIN RoundMatches : opts[k] \in RoundsResultOptions(k)
         /\ results = Flatten(opts)
    /\ scored = <<>>
    /\ warning = <<>>
    /\ standings = NoStandings
    /\ output = NA
    /\ exit_status = NoStatus
    /\ error = NA
    /\ ImportIdle
    /\ ResultsIdle
    /\ UpdateIdle

SpecRounds == InitRounds /\ [][NextScoring]_vars

(***************************************************************************)
(* import_text_predictions: the strings it strips, lower-cases or         *)
(* compares after normalising are sequences of code points.               *)
(***************************************************************************)
\* str.strip().
RECURSIVE StripLeft(_)
StripLeft(s) ==
    IF s # <<>> /\ IsSpace(Head(s)) THEN StripLeft(Tail(s)) ELSE s

RECURSIVE StripRight(_)
StripRight(s) ==
    IF s # <<>> /\ IsSpace(s[Len(s)])
    THEN StripRight(SubSeq(s, 1, Len(s) - 1))
    ELSE s

Strip(s) == StripRight(StripLeft(s))

\* (value or "").strip().lower()
StripLower(s) == [i \in DOMAIN Strip(s) |-> Lower(Strip(s)[i])]

\* str() of a round number below 10.
DigitStr(n) == <<48 + n>>

\* Lines 39-42, for a text and for args.round.
NormalizeRound(text) == Strip(text)

\* team_aliases.py: the entries of TEAM_ALIASES that change a name of the
\* model.
Alias_man_united == <<109, 97, 110, 32, 117, 110, 105, 116, 101, 100>>
Alias_manchester_united == <<109, 97, 110, 99, 104, 101, 115, 116, 101, 114, 32, 117, 110, 105, 116, 101, 100>>
TEAM_ALIASES == [base \in {Alias_man_united} |-> Alias_manchester_united]

\* team_aliases.normalize_team_name on names of ASCII letters: lower-case,
\* "-" to a space, runs of whitespace to one space, then the alias table.
NormalizeTeam(name) ==
    LET base == NormalizeName([i \in DOMAIN name |->
                                  IF name[i] = 45 THEN 32 ELSE name[i]])
    IN IF base \in DOMAIN TEAM_ALIASES THEN TEAM_ALIASES[base] ELSE base

\* Lines 45-46.
FixtureKey(home_team, away_team) ==
    <<NormalizeTeam(home_team), NormalizeTeam(away_team)>>

\* Lines 49-53: the label of a fixture, as its parts.
FixtureLabel(home_team, away_team, override) == <<home_team, away_team, override>>

\* Lines 137-141 and 74: results_index.get(key, []), the rows of the
\* results file with that key, in file order.
ResultsIndexGet(data, key) ==
    SelectSeq(data, LAMBDA row : FixtureKey(row.home_team, row.away_team) = key)

\* ResolveResultRow that returns the first of several candidates.
ResolveResultRow_FirstCandidate(parsed, data, override) ==
    LET rows == ResultsIndexGet(data, FixtureKey(parsed.home_team, parsed.away_team))
        round_rows ==
            SelectSeq(rows, LAMBDA row :
                NormalizeRound(row.round) = NormalizeRound(DigitStr(Val(override))))
    IN IF rows = <<>> THEN [row |-> NA, ambiguous |-> {}]
       ELSE IF ~IsNA(override)
       THEN IF Len(round_rows) >= 1
            THEN [row |-> Some(round_rows[1]), ambiguous |-> {}]
            ELSE [row |-> NA, ambiguous |-> {}]
       ELSE [row |-> Some(rows[1]), ambiguous |-> {}]

\* Lines 69-98.  row: the returned row, or NA for None; ambiguous: the
\* labels added to ambiguous_fixtures.
ResolveResultRow(parsed, data, override) ==
    LET rows == ResultsIndexGet(data, FixtureKey(parsed.home_team, parsed.away_team))
        round_rows ==
            SelectSeq(rows, LAMBDA row :
                NormalizeRound(row.round) = NormalizeRound(DigitStr(Val(override))))
        label == FixtureLabel(parsed.home_team, parsed.away_team, override)
    IN IF rows = <<>> THEN [row |-> NA, ambiguous |-> {}]
       ELSE IF ~IsNA(override)
       THEN IF Len(round_rows) = 1
            THEN [row |-> Some(round_rows[1]), ambiguous |-> {}]
            ELSE [row |-> NA,
                  ambiguous |-> IF Len(round_rows) > 1 THEN {label} ELSE {}]
       ELSE IF Len(rows) = 1
       THEN [row |-> Some(rows[1]), ambiguous |-> {}]
       ELSE [row |-> NA, ambiguous |-> {label}]

\* Lines 114-125: the suffixes of a line that starts with a user id, tried
\* in order until one resolves.
RECURSIVE TryCandidates(_, _, _, _)
TryCandidates(candidates, data, override, ambiguous) ==
    IF candidates = <<>> THEN [hit |-> NA, ambiguous |-> ambiguous]
    ELSE LET r == ResolveResultRow(Head(candidates), data, override)
         IN IF ~IsNA(r.row)
            THEN [hit |-> Some([match |-> Head(candidates), result_row |-> Val(r.row)]),
                  ambiguous |-> ambiguous \cup r.ambiguous]
            ELSE TryCandidates(Tail(candidates), data, override,
                               ambiguous \cup r.ambiguous)

\* Lines 101-126.  A line is what parse_match_line makes of it (parsed) and
\* of its suffixes when its first token matches USER_ID_PATTERN (candidates).
ParsePredictionMatch(line, data, override) ==
    LET first == ResolveResultRow(line.parsed, data, override)
    IN IF ~IsNA(first.row)
       THEN [hit |-> Some([match |-> line.parsed, result_row |-> Val(first.row)]),
             ambiguous |-> first.ambiguous]
       ELSE TryCandidates(line.candidates, data, override, first.ambiguous)

\* Lines 317-327: the inner loop of main over the lines of one block.
RECURSIVE ParseLines(_, _, _, _)
ParseLines(lines, data, override, acc) ==
    IF lines = <<>> THEN acc
    ELSE LET r == ParsePredictionMatch(Head(lines), data, override)
         IN ParseLines(Tail(lines), data, override,
                [parsed_matches |-> acc.parsed_matches \o r.hit,
                 skipped |-> acc.skipped \o
                             (IF IsNA(r.hit) THEN <<Head(lines)>> ELSE <<>>),
                 ambiguous |-> acc.ambiguous \cup r.ambiguous])

\* Lines 227-233.
RowKeyFromValues(user_id, user, match_id) ==
    IF StripLower(user_id) # <<>>
    THEN <<"id", StripLower(user_id), StripLower(match_id)>>
    ELSE <<"name", StripLower(user), StripLower(match_id)>>

\* Lines 243-244.
RowKey(row) == RowKeyFromValues(row.user_id, row.user, row.match_id)

\* OrderedDict: merged[key] = row replaces the row of a key in place and
\* puts a new key at the end.
PutRow(merged, row) ==
    IF \E i \in DOMAIN merged : merged[i].key = RowKey(row)
    THEN [i \in DOMAIN merged |->
             IF merged[i].key = RowKey(row) THEN [key |-> RowKey(row), row |-> row]
             ELSE merged[i]]
    ELSE Append(merged, [key |-> RowKey(row), row |-> row])

RECURSIVE PutRows(_, _)
PutRows(merged, rows) ==
    IF rows = <<>> THEN merged
    ELSE PutRows(PutRow(merged, Head(rows)), Tail(rows))

\* Lines 236-257.
MergePredictionRows(existing, new, clear_matches) ==
    LET merged == PutRows(<<>>, existing)
        keys_to_remove == {RowKey(new[i]) : i \in DOMAIN new}
        cleared == IF clear_matches
                   THEN SelectSeq(merged, LAMBDA e : e.key \notin keys_to_remove)
                   ELSE merged
        final == PutRows(cleared, new)
    IN [i \in DOMAIN final |-> final[i].row]

\* Line 27: GENERATED_ID_PATTERN, "U" and digits, and the number it holds.
IsDigit(c) == c \in 48..57

RECURSIVE DigitsValue(_, _)
DigitsValue(digits, acc) ==
    IF digits = <<>> THEN acc
    ELSE DigitsValue(Tail(digits), 10 * acc + (Head(digits) - 48))

GeneratedNumber(uid) ==
    IF Len(uid) >= 2 /\ Head(uid) = 85 /\ \A i \in 2..Len(uid) : IsDigit(uid[i])
    THEN DigitsValue(Tail(uid), 0)
    ELSE 0

\* Line 337: f"U{next_user_id:04d}".
GeneratedId(n) ==
    <<85, 48 + ((n \div 1000) % 10), 48 + ((n \div 100) % 10),
      48 + ((n \div 10) % 10), 48 + (n % 10)>>

\* Lines 209-216.
RECURSIVE NextGeneratedUserIdFrom(_, _)
NextGeneratedUserIdFrom(rows, max_id) ==
    IF rows = <<>> THEN max_id + 1
    ELSE LET n == GeneratedNumber(Strip(Head(rows).user_id))
         IN NextGeneratedUserIdFrom(Tail(rows), IF n > max_id THEN n ELSE max_id)

NextGeneratedUserId(rows) == NextGeneratedUserIdFrom(rows, 0)

\* Lines 304-309: the ids of the names of the predictions file, a later row
\* of a name overriding an earlier one.
RECURSIVE NameToId(_, _)
NameToId(rows, map) ==
    IF rows = <<>> THEN map
    ELSE LET normalized_name == NormalizeName(Head(rows).user)
             uid == Strip(Head(rows).user_id)
         IN NameToId(Tail(rows),
                     IF normalized_name # <<>> /\ uid # <<>>
                     THEN (normalized_name :> uid) @@ map
                     ELSE map)

\* Lines 343-355.
NewRow(user_id, user_name, hit, override) ==
    [match_id |-> hit.result_row.match_id,
     round |-> IF ~IsNA(override) THEN DigitStr(Val(override))
               ELSE hit.result_row.round,
     user_id |-> user_id,
     user |-> user_name,
     home_team |-> hit.result_row.home_team,
     away_team |-> hit.result_row.away_team,
     predicted_home_goals |-> hit.match.home_goals,
     predicted_away_goals |-> hit.match.away_goals]

\* Lines 293-309: no block of predictions, or no row of results (SystemExit
\* of _load_results), ends the run with status 1.
ImportStart ==
    /\ ipc = "start"
    /\ IF blocks = <<>> \/ results_data = <<>>
       THEN /\ ipc' = "exit"
            /\ import_status' = Some(1)
            /\ UNCHANGED <<next_user_id, name_to_id>>
       ELSE /\ ipc' = "blocks"
            /\ next_user_id' = NextGeneratedUserId(existing_rows)
            /\ name_to_id' = NameToId(existing_rows, <<>>)
            /\ UNCHANGED import_status
    /\ UNCHANGED <<blocks, results_data, round_override, existing_rows,
                   clear_users, new_rows, skipped_matches, ambiguous_fixtures,
                   combined>>
    /\ UNCHANGED <<scoreboard_vars, results_vars, update_vars>>

\* Lines 315-355: one turn of the loop over the blocks.  A block is what
\* _extract_user_info makes of its metadata, and its match lines.
ImportBlock ==
    /\ ipc = "blocks"
    /\ blocks # <<>>
    /\ LET block == Head(blocks)
           acc == ParseLines(block.lines, results_data, round_override,
                             [parsed_matches |-> <<>>, skipped |-> <<>>,
                              ambiguous |-> {}])
           normalized_name == NormalizeName(block.user_name)
           known == normalized_name # <<>> /\ normalized_name \in DOMAIN name_to_id
           user_id == IF block.user_id # <<>> THEN block.user_id
                      ELSE IF known THEN name_to_id[normalized_name]
                      ELSE GeneratedId(next_user_id)
       IN /\ blocks' = Tail(blocks)
          /\ skipped_matches' = skipped_matches \o acc.skipped
          /\ ambiguous_fixtures' = ambiguous_fixtures \cup acc.ambiguous
          /\ IF acc.parsed_matches = <<>>
             THEN UNCHANGED <<next_user_id, name_to_id, new_rows>>
             ELSE /\ next_user_id' = IF block.user_id = <<>> /\ ~known
                                     THEN next_user_id + 1 ELSE next_user_id
                  /\ name_to_id' = IF normalized_name # <<>> /\ ~known
                                   THEN (normalized_name :> user_id) @@ name_to_id
                                   ELSE name_to_id
                  /\ new_rows' = new_rows \o
                         [i \in DOMAIN acc.parsed_matches |->
                             NewRow(user_id, block.user_name,
                                    acc.parsed_matches[i], round_override)]
    /\ UNCHANGED <<ipc, results_data, round_override, existing_rows, clear_users,
                   combined, import_status>>
    /\ UNCHANGED <<scoreboard_vars, results_vars, update_vars>>

\* Lines 357-377: without a new row the run ends with status 1 and writes
\* nothing; otherwise the merged rows are written.
ImportFinish ==
    /\ ipc = "blocks"
    /\ blocks = <<>>
    /\ ipc' = "exit"
    /\ IF new_rows = <<>>
       THEN /\ import_status' = Some(1)
            /\ UNCHANGED combined
       ELSE /\ combined' = Some(MergePredictionRows(existing_rows, new_rows,
                                                    clear_users))
            /\ import_status' = Some(0)
    /\ UNCHANGED <<blocks, results_data, round_override, existing_rows,
                   clear_users, next_user_id, name_to_id, new_rows,
                   skipped_matches, ambiguous_fixtures>>
    /\ UNCHANGED <<scoreboard_vars, results_vars, update_vars>>

\* generate_scoreboard has not been started.
ScoreboardIdle ==
    /\ pc = "start"
    /\ use_user_id = FALSE
    /\ predictions = <<>>
    /\ results = <<>>
    /\ scored = <<>>
    /\ warning = <<>>
    /\ standings = NoStandings
    /\ output = NA
    /\ exit_status = NoStatus
    /\ error = NA

(***************************************************************************)
(* import_text_predictions.main on a results file that may hold the same  *)
(* pair of teams more than once, and a text of one or two blocks.         *)
(***************************************************************************)
MaxLines == 2

Team_ManUnited == <<77, 97, 110, 32, 85, 110, 105, 116, 101, 100>>
Team_ManchesterUnited == <<77, 97, 110, 99, 104, 101, 115, 116, 101, 114, 32, 85, 110, 105, 116, 101, 100>>
Team_Chelsea == <<67, 104, 101, 108, 115, 101, 97>>
Team_Everton == <<69, 118, 101, 114, 116, 111, 110>>
Team_Fulham == <<70, 117, 108, 104, 97, 109>>
Team_Leeds == <<76, 101, 101, 100, 115>>
Team_Derby == <<68, 101, 114, 98, 121>>
Team_U12ManUnited == <<85, 49, 50, 32, 77, 97, 110, 32, 85, 110, 105, 116, 101, 100>>
Team_United == <<85, 110, 105, 116, 101, 100>>

Mid_M1 == <<77, 49>>
Mid_M2 == <<77, 50>>
Mid_M3 == <<77, 51>>
Mid_M4 == <<77, 52>>

\* Rows of a results file: the same fixture in rounds "1", "2" and "2 ",
\* and another fixture.
ImportResultRows ==
    <<[match_id |-> Mid_M1, round |-> <<49>>,
       home_team |-> Team_ManchesterUnited, away_team |-> Team_Chelsea],
      [match_id |-> Mid_M2, round |-> <<50>>,
       home_team |-> Team_ManchesterUnited, away_team |-> Team_Chelsea],
      [match_id |-> Mid_M3, round |-> <<50, 32>>,
       home_team |-> Team_ManUnited, away_team |-> Team_Chelsea],
      [match_id |-> Mid_M4, round |-> <<49>>,
       home_team |-> Team_Everton, away_team |-> Team_Fulham]>>

\* The results files: any of those rows, in that order.
ImportResultTables ==
    {Flatten([i \in DOMAIN ImportResultRows |->
                 IF i \in picked THEN <<ImportResultRows[i]>> ELSE <<>>]) :
        picked \in SUBSET DOMAIN ImportResultRows}

ParsedMatch(home, away, hg, ag) ==
    [home_team |-> home, away_team |-> away, home_goals |-> hg, away_goals |-> ag]

\* "Man United - Chelsea 2:1", "U12 Man United - Chelsea 1:1",
\* "Everton - Fulham 0:0" and "Leeds - Derby 1:0".
ImportLines ==
    {[parsed |-> ParsedMatch(Team_ManUnited, Team_Chelsea, 2, 1),
      candidates |-> <<>>],
     [parsed |-> ParsedMatch(Team_U12ManUnited, Team_Chelsea, 1, 1),
      candidates |-> <<ParsedMatch(Team_ManUnited, Team_Chelsea, 1, 1),
                       ParsedMatch(Team_United, Team_Chelsea, 1, 1)>>],
     [parsed |-> ParsedMatch(Team_Everton, Team_Fulham, 0, 0),
      candidates |-> <<>>],
     [parsed |-> ParsedMatch(Team_Leeds, Team_Derby, 1, 0),
      candidates |-> <<>>]}

ImportLineLists == UNION {[1..n -> ImportLines] : n \in 1..MaxLines}

\* The texts: none, one block of a user with or without an id, and a
\* block of a user without an id followed by a block of "Alice " without
\* an id.
ImportBlocks ==
    {<<>>} \cup
    {<<[user_id |-> uid, user_name |-> Name_Bob, lines |-> lines]>> :
        uid \in {<<>>, Id_U1}, lines \in ImportLineLists} \cup
    {<<[user_id |-> <<>>, user_name |-> Name_Bob, lines |-> lines],
       [user_id |-> <<>>, user_name |-> Name_AliceSp,
        lines |-> <<[parsed |-> ParsedMatch(Team_Everton, Team_Fulham, 0, 0),
                     candidates |-> <<>>]>>]>> :
        lines \in ImportLineLists}

\* The predictions file: absent, or holding a row of "alice" with a
\* generated id.
ImportExistingTables ==
    {<<>>,
     <<[match_id |-> Mid_M4, round |-> <<49>>, user_id |-> GeneratedId(1),
        user |-> Name_alice, home_team |-> Team_Everton,
        away_team |-> Team_Fulham, predicted_home_goals |-> 3,
        predicted_away_goals |-> 3]>>}

InitImport ==
    /\ ScoreboardIdle
    /\ ResultsIdle
    /\ UpdateIdle
    /\ ipc = "start"
    /\ blocks \in ImportBlocks
    /\ results_data \in ImportResultTables
    /\ round_override \in {NA, Some(2)}
    /\ existing_rows \in ImportExistingTables
    /\ clear_users \in {b \in BOOLEAN : b => existing_rows # <<>>}
    /\ next_user_id = 1
    /\ name_to_id = <<>>
    /\ new_rows = <<>>
    /\ skipped_matches = <<>>
    /\ ambiguous_fixtures = {}
    /\ combined = NA
    /\ import_status = NA

NextImport == ImportStart \/ ImportBlock \/ ImportFinish

SpecImport == InitImport /\ [][NextImport]_vars

(***************************************************************************)
(* _merge_prediction_rows on rows of a predictions file (goal count 1)    *)
(* and new rows (goal count 2) of users with and without an id.           *)
(***************************************************************************)
MaxRows == 2

Name_JohnSmith == <<106, 111, 104, 110, 32, 115, 109, 105, 116, 104>>
Name_JohnSmithWide == <<106, 111, 104, 110, 32, 32, 115, 109, 105, 116, 104>>
Id_u1 == <<117, 49>>

\* The user_id, user and match_id of the rows: "john smith" and
\* "john  smith" without an id, "alice" with the id "U1" and "Alice " with
\* the id "u1".
MergeIdentities ==
    {<<<<>>, Name_JohnSmith, Mid_M1>>, <<<<>>, Name_JohnSmith, Mid_M2>>,
     <<<<>>, Name_JohnSmithWide, Mid_M1>>,
     <<Id_U1, Name_alice, Mid_M1>>, <<Id_U1, Name_alice, Mid_M2>>,
     <<Id_u1, Name_AliceSp, Mid_M1>>}

MergeRow(identity, goals) ==
    [match_id |-> identity[3],
     round |-> <<49>>,
     user_id |-> identity[1],
     user |-> identity[2],
     home_team |-> Team_Everton,
     away_team |-> Team_Fulham,
     predicted_home_goals |-> goals,
     predicted_away_goals |-> 0]

MergeTables(goals) ==
    UNION {[1..n -> {MergeRow(identity, goals) : identity \in MergeIdentities}] :
           n \in 0..MaxRows}

InitMerge ==
    /\ ScoreboardIdle
    /\ ResultsIdle
    /\ UpdateIdle
    /\ ipc = "merge"
    /\ blocks = <<>>
    /\ results_data = <<>>
    /\ round_override = NA
    /\ existing_rows \in MergeTables(1)
    /\ clear_users \in BOOLEAN
    /\ next_user_id = 1
    /\ name_to_id = <<>>
    /\ new_rows \in MergeTables(2)
    /\ skipped_matches = <<>>
    /\ ambiguous_fixtures = {}
    /\ combined = NA
    /\ import_status = NA

\* Line 361.
MergeRows ==
    /\ ipc = "merge"
    /\ combined' = Some(MergePredictionRows(existing_rows, new_rows, clear_users))
    /\ ipc' = "merged"
    /\ UNCHANGED <<blocks, results_data, round_override, existing_rows,
                   clear_users, next_user_id, name_to_id, new_rows,
                   skipped_matches, ambiguous_fixtures, import_status>>
    /\ UNCHANGED <<scoreboard_vars, results_vars, update_vars>>

SpecMerge == InitMerge /\ [][MergeRows]_vars

(***************************************************************************)
(* import_text_results.py: the matches of a text file become rows of the  *)
(* results file.  A results row holds match_id, round, home_team and      *)
(* away_team as strings and the two goal counts; a line of the text file  *)
(* is what parse_match_line makes of it (NA for a line that is no match). *)
(***************************************************************************)
\* Lines 25-46: the lines that parse, in the order of the text.
ParseMatches(text_lines) == Flatten(text_lines)

\* Lines 53-55.
MatchKey(round_value, home_team, away_team) ==
    <<Strip(round_value), NormalizeTeam(home_team), NormalizeTeam(away_team)>>

RowMatchKey(row) == MatchKey(row.round, row.home_team, row.away_team)

\* Lines 68-78 with lines 140-141: the first row of the file with that key holds
\* the match_id that is looked up ("" when no row has the key).
ExistingMatchId_None(existing, key) == <<>>

ExistingMatchId(existing, key) ==
    LET hits == {i \in DOMAIN existing : RowMatchKey(existing[i]) = key}
    IN IF hits = {} THEN <<>>
       ELSE existing[CHOOSE i \in hits : \A j \in hits : i <= j].match_id

\* Line 82: ^prefix(\d+)$ and int(group 1); 0 stands for no match.
MatchNumber(match_id, prefix) ==
    LET n == Len(prefix)
    IN IF /\ Len(match_id) > n
          /\ SubSeq(match_id, 1, n) = prefix
          /\ \A i \in (n + 1)..Len(match_id) : IsDigit(match_id[i])
       THEN DigitsValue(SubSeq(match_id, n + 1, Len(match_id)), 0)
       ELSE 0

\* Lines 81-89.
NextMatchNumber_Count(existing, prefix) == Len(existing)

RECURSIVE NextMatchNumber(_, _)
NextMatchNumber(existing, prefix) ==
    IF existing = <<>> THEN 0
    ELSE LET rest == NextMatchNumber(Tail(existing), prefix)
             here == MatchNumber(Head(existing).match_id, prefix)
         IN IF here > rest THEN here ELSE rest

\* str(n) of a positive number.
RECURSIVE NumberStr(_)
NumberStr(n) ==
    IF n < 10 THEN <<48 + n>> ELSE NumberStr(n \div 10) \o <<48 + (n % 10)>>

\* Lines 135-154: the loop over the parsed matches.
RECURSIVE ImportMatches(_, _, _, _, _)
ImportMatches(parsed_matches, existing, round_arg, prefix, acc) ==
    IF parsed_matches = <<>> THEN acc
    ELSE LET match == Head(parsed_matches)
             key == MatchKey(DigitStr(round_arg), match.home_team,
                             match.away_team)
             found == ExistingMatchId(existing, key)
             number == acc.next_match_number + 1
             row == [match_id |-> IF found = <<>> THEN prefix \o NumberStr(number)
                                  ELSE found,
                     round |-> DigitStr(round_arg),
                     home_team |-> match.home_team,
                     away_team |-> match.away_team,
                     home_goals |-> match.home_goals,
                     away_goals |-> match.away_goals]
         IN IF key \in acc.new_keys
            THEN ImportMatches(Tail(parsed_matches), existing, round_arg,
                               prefix, acc)
            ELSE ImportMatches(Tail(parsed_matches), existing, round_arg,
                               prefix,
                    [new_rows |-> Append(acc.new_rows, row),
                     new_keys |-> acc.new_keys \cup {key},
                     next_match_number |->
                         IF found = <<>> THEN number
                         ELSE acc.next_match_number])

\* Lines 129-170: the rows main writes for a text with at least one match.
AllRows(existing, parsed_matches, round_arg, prefix) ==
    LET done == ImportMatches(parsed_matches, existing, round_arg, prefix,
                    [new_rows |-> <<>>, new_keys |-> {},
                     next_match_number |-> NextMatchNumber(existing, prefix)])
        kept_rows == SelectSeq(existing,
                         LAMBDA row : RowMatchKey(row) \notin done.new_keys)
    IN kept_rows \o done.new_rows

\* Lines 123-173: main.  A text without a match ends the run in
\* _parse_matches (SystemExit with a message: status 1) before the file is
\* read or written.  The run is over afterwards.
ImportResults ==
    /\ results_args # <<>>
    /\ LET args == Val(results_args)
           parsed_matches == ParseMatches(args.text_lines)
       IN IF parsed_matches = <<>>
          THEN /\ results_status' = Some(1)
               /\ UNCHANGED results_csv
          ELSE /\ results_csv' = AllRows(results_csv, parsed_matches,
                                         args.round, args.match_prefix)
               /\ results_status' = Some(0)
    /\ results_args' = <<>>
    /\ UNCHANGED <<scoreboard_vars, import_vars, update_vars>>

(***************************************************************************)
(* SpecResults: any sequence of runs of import_text_results.main on one   *)
(* results file, with texts of up to MaxMatches lines imported for round  *)
(* 1 into files that also hold rows of round 2, and two prefixes of which *)
(* one begins with the other.                                             *)
(***************************************************************************)
MaxMatches == 2

Prefix_M == <<77>>
Prefix_M1 == <<77, 49>>
MatchPrefixes == {Prefix_M, Prefix_M1}

ImportRounds == {1}

\* "Man United 1:0 Chelsea", "Manchester United 2:0 Chelsea",
\* "Everton 0:0 Fulham" and a line that is no match.
ResultLines ==
    {Some(ParsedMatch(Team_ManUnited, Team_Chelsea, 1, 0)),
     Some(ParsedMatch(Team_ManchesterUnited, Team_Chelsea, 2, 0)),
     Some(ParsedMatch(Team_Everton, Team_Fulham, 0, 0)),
     NA}

ResultTexts ==
    UNION {[1..n -> ResultLines] : n \in 0..MaxMatches}

ResultFileRow(match_id, round, home, away, hg, ag) ==
    [match_id |-> match_id, round |-> round, home_team |-> home,
     away_team |-> away, home_goals |-> hg, away_goals |-> ag]

\* The results files a sequence of runs starts from: no file, and files
\* whose rows have pairwise different match_ids and different keys.
ResultFiles ==
    {<<>>,
     <<ResultFileRow(Mid_M1, <<49>>, Team_ManchesterUnited, Team_Chelsea, 0, 0),
       ResultFileRow(Mid_M3, <<50, 32>>, Team_Everton, Team_Fulham, 1, 1)>>,
     <<ResultFileRow(<<77, 49, 50>>, <<49>>, Team_Everton, Team_Fulham, 3, 1),
       ResultFileRow(<<>>, <<50>>, Team_ManUnited, Team_Chelsea, 1, 1)>>}

InitResults ==
    /\ ScoreboardIdle
    /\ ImportIdle
    /\ UpdateIdle
    /\ results_csv \in ResultFiles
    /\ results_args = <<>>
    /\ results_status = <<>>

\* Lines 99-120: a run is started with a text file, --round and
\* --match-prefix.
ResultsStart ==
    /\ results_args = <<>>
    /\ \E text_lines \in ResultTexts, round_arg \in ImportRounds,
          prefix \in MatchPrefixes :
           results_args' = Some([text_lines |-> text_lines,
                                 round |-> round_arg,
                                 match_prefix |-> prefix])
    /\ UNCHANGED <<results_csv, results_status>>
    /\ UNCHANGED <<scoreboard_vars, import_vars, update_vars>>

NextResults == ResultsStart \/ ImportResults

SpecResults == InitResults /\ [][NextResults]_vars

(***************************************************************************)
(* update_from_text.py: main calls import_text_results.main, then         *)
(* import_text_predictions.main when --predictions-text is given, then    *)
(* generate_scoreboard.main, on the files the earlier stages wrote.       *)
(***************************************************************************)
\* Lines 116 and 76-85: import_text_results.main is called with the text
\* file, --round and --match-prefix of the update.
UpdateCallResults ==
    /\ upc = "start"
    /\ upc' = "results"
    /\ results_args' = Some([text_lines |-> update_args.text_lines,
                             round |-> update_args.round,
                             match_prefix |-> update_args.match_prefix])
    /\ UNCHANGED <<results_csv, results_status, update_args, update_status>>
    /\ UNCHANGED <<scoreboard_vars, import_vars>>

\* Lines 124 and 99-109: import_text_predictions.main is called with the
\* predictions text, the results file and the predictions file.
CallPredictions ==
    /\ ipc' = "start"
    /\ blocks' = Val(update_args.predictions_text)
    /\ results_data' = results_csv
    /\ round_override' = update_args.predictions_round
    /\ clear_users' = update_args.clear_predictions
    /\ UNCHANGED <<existing_rows, next_user_id, name_to_id, new_rows,
                   skipped_matches, ambiguous_fixtures, combined,
                   import_status>>

\* Lines 129 and 88-96: generate_scoreboard.main is called.
CallScoreboard ==
    /\ pc' = "start"
    /\ UNCHANGED <<use_user_id, predictions, results, scored, warning,
                   standings, output, exit_status, error>>

\* Lines 116-129: import_text_results.main is over.  A status other than 0
\* (the SystemExit of a text without a match) ends the update with it.
UpdateAfterResults ==
    /\ upc = "results"
    /\ results_args = <<>>
    /\ IF results_status # Some(0)
       THEN /\ upc' = "done"
            /\ update_status' = results_status
            /\ UNCHANGED <<scoreboard_vars, import_vars>>
       ELSE IF ~IsNA(update_args.predictions_text)
       THEN /\ upc' = "predictions"
            /\ CallPredictions
            /\ UNCHANGED <<update_status, scoreboard_vars>>
       ELSE /\ upc' = "standings"
            /\ CallScoreboard
            /\ UNCHANGED <<update_status, import_vars>>
    /\ UNCHANGED <<update_args, results_vars>>

\* The update going on to the standings whatever the predictions import
\* returned.
UpdateAfterPredictions_KeepGoing ==
    /\ upc = "predictions"
    /\ ipc = "exit"
    /\ upc' = "standings"
    /\ CallScoreboard
    /\ UNCHANGED <<update_args, update_status, results_vars, import_vars>>

\* Lines 124-129: import_text_predictions.main has returned.
UpdateAfterPredictions ==
    /\ upc = "predictions"
    /\ ipc = "exit"
    /\ IF import_status # Some(0)
       THEN /\ upc' = "done"
            /\ update_status' = import_status
            /\ UNCHANGED scoreboard_vars
       ELSE /\ upc' = "standings"
            /\ CallScoreboard
            /\ UNCHANGED update_status
    /\ UNCHANGED <<update_args, results_vars, import_vars>>

\* Lines 129-130: the status of generate_scoreboard.main is returned.
UpdateReturn ==
    /\ upc = "standings"
    /\ pc \in {"done", "failed"}
    /\ upc' = "done"
    /\ update_status' = exit_status
    /\ UNCHANGED <<update_args, scoreboard_vars, import_vars, results_vars>>

\* generate_scoreboard.py lines 52-58: a cell of a csv file as pandas reads
\* it: nothing, a number, or text.
ReadCell(text) ==
    IF Strip(text) = <<>> THEN NA
    ELSE IF \A i \in DOMAIN Strip(text) : IsDigit(Strip(text)[i])
    THEN <<DigitsValue(Strip(text), 0)>>
    ELSE text

\* A row of the predictions file and of the results file as a row of the
\* table generate_scoreboard reads.
ReadPrediction(row) ==
    [match_id |-> row.match_id,
     round |-> ReadCell(row.round),
     user_id |-> row.user_id,
     user |-> row.user,
     home_team |-> Some(row.home_team),
     away_team |-> Some(row.away_team),
     predicted_home_goals |-> Some(row.predicted_home_goals),
     predicted_away_goals |-> Some(row.predicted_away_goals)]

ReadResult(row) ==
    [match_id |-> row.match_id,
     round |-> ReadCell(row.round),
     home_team |-> Some(row.home_team),
     away_team |-> Some(row.away_team),
     home_goals |-> Some(row.home_goals),
     away_goals |-> Some(row.away_goals)]

\* The rows of the predictions file: those import_text_predictions wrote,
\* or those it held before.
PredictionsFile == IF ~IsNA(combined) THEN Val(combined) ELSE existing_rows

\* generate_scoreboard.py lines 97-102 and 371 on the files of the update:
\* both have every required column and user_id.  Without a predictions
\* file read_csv raises FileNotFoundError, which main does not catch: the
\* run ends with status 1.
LoadWritten ==
    /\ pc = "start"
    /\ IF PredictionsFile = <<>>
       THEN /\ pc' = "failed"
            /\ exit_status' = Some(1)
            /\ error' = Some("FileNotFoundError")
            /\ UNCHANGED <<use_user_id, predictions, results>>
       ELSE /\ pc' = "loaded"
            /\ use_user_id' = TRUE
            /\ predictions' = [i \in DOMAIN PredictionsFile |->
                                  ReadPrediction(PredictionsFile[i])]
            /\ results' = [i \in DOMAIN results_csv |->
                              ReadResult(results_csv[i])]
            /\ UNCHANGED <<exit_status, error>>
    /\ UNCHANGED <<scored, warning, standings, output>>
    /\ UNCHANGED <<import_vars, results_vars, update_vars>>

(***************************************************************************)
(* SpecUpdate: one run of update_from_text.main.                           *)
(***************************************************************************)
\* The predictions texts of an update: no block, or one block of one line.
UpdateBlocks ==
    {b \in ImportBlocks :
        Len(b) <= 1 /\ \A i \in DOMAIN b : Len(b[i].lines) = 1}

\* The text files of an update: no line, "Man United 1:0 Chelsea", and
\* "Everton 0:0 Fulham" followed by a line that is no match.
UpdateTexts ==
    {<<>>,
     <<Some(ParsedMatch(Team_ManUnited, Team_Chelsea, 1, 0))>>,
     <<Some(ParsedMatch(Team_Everton, Team_Fulham, 0, 0)), NA>>}

\* Lines 13-73.
UpdateArgs ==
    [text_lines : UpdateTexts,
     round : ImportRounds,
     match_prefix : {Prefix_M},
     predictions_text : {NA} \cup {Some(b) : b \in UpdateBlocks},
     predictions_round : {NA, Some(2)},
     clear_predictions : BOOLEAN]

InitUpdate ==
    /\ pc = "idle"
    /\ use_user_id = FALSE
    /\ predictions = <<>>
    /\ results = <<>>
    /\ scored = <<>>
    /\ warning = <<>>
    /\ standings = NoStandings
    /\ output = NA
    /\ exit_status = NoStatus
    /\ error = NA
    /\ ipc = "idle"
    /\ blocks = <<>>
    /\ results_data = <<>>
    /\ round_override = NA
    /\ existing_rows \in ImportExistingTables
    /\ clear_users = FALSE
    /\ next_user_id = 1
    /\ name_to_id = <<>>
    /\ new_rows = <<>>
    /\ skipped_matches = <<>>
    /\ ambiguous_fixtures = {}
    /\ combined = NA
    /\ import_status = NA
    /\ results_csv \in ResultFiles
    /\ results_args = <<>>
    /\ results_status = <<>>
    /\ upc = "start"
    /\ update_args \in {a \in UpdateArgs :
           IsNA(a.predictions_text) =>
               IsNA(a.predictions_round) /\ ~a.clear_predictions}
    /\ update_status = <<>>

NextUpdate ==
    \/ UpdateCallResults
    \/ ImportResults
    \/ UpdateAfterResults
    \/ ImportStart
    \/ ImportBlock
    \/ ImportFinish
    \/ UpdateAfterPredictions
    \/ LoadWritten
    \/ Score
    \/ Build
    \/ WriteExcel
    \/ UpdateReturn

SpecUpdate == InitUpdate /\ [][NextUpdate]_vars

\* The rows of scored that come from a prediction (not placeholder rows).
IsScoredRow(row) == ~IsNA(row.match_id)

\* A row of the table and a row of scored (or of predictions) of one user.
SameUser(line, row) == line.Name = row.user /\ line.User_ID = row.user_id

LinesOf(row) == {n \in DOMAIN standings.rows : SameUser(standings.rows[n], row)}

Sign(d) == IF d > 0 THEN 1 ELSE IF d < 0 THEN 2 ELSE 0

ExpectedPoints(ph, pa, ah, aa) ==
    IF ph = ah /\ pa = aa THEN 4
    ELSE IF Sign(ph - pa) = Sign(ah - aa) /\ ph - pa = ah - aa THEN 2
    ELSE IF Sign(ph - pa) = Sign(ah - aa) THEN 1
    ELSE 0

\* C1: the points of every scored prediction follow the first-match-wins
\* rule on the predicted and actual goals: 4 for the exact score, else 2 for
\* the right winner and goal difference, else 1 for the right winner, else
\* 0; they are 4 exactly when the predicted pair equals the actual pair.
C1_ScoringRule ==
    Scored =>
        \A i \in DOMAIN scored :
            IsScoredRow(scored[i]) =>
                LET r == scored[i]
                IN /\ r.points = ExpectedPoints(r.predicted_home_goals,
                                                r.predicted_away_goals,
                                                r.home_goals, r.away_goals)
                   /\ r.points \in {0, 1, 2, 4}
                   /\ (r.points = 4) <=>
                        (/\ r.predicted_home_goals = r.home_goals
                         /\ r.predicted_away_goals = r.away_goals)

\* A prediction of 2:1 scored against a result of 3:2 with 2 points.
C1_Witness ==
    /\ Scored
    /\ \E i \in DOMAIN scored :
         /\ IsScoredRow(scored[i])
         /\ scored[i].predicted_home_goals = 2 /\ scored[i].predicted_away_goals = 1
         /\ scored[i].home_goals = 3 /\ scored[i].away_goals = 2
         /\ scored[i].points = 2

\* C2: every participant of the predictions table is on exactly one row of
\* the standings.
C2_EveryUserOnce ==
    Built =>
        \A i \in DOMAIN predictions : Cardinality(LinesOf(predictions[i])) = 1

\* The predictions of the user of row p all reference a match without result.
AllDropped(p) ==
    \A i \in DOMAIN predictions :
        (predictions[i].user = p.user /\ predictions[i].user_id = p.user_id) =>
            \A j \in DOMAIN results : results[j].match_id # predictions[i].match_id

ZeroLine(line) ==
    /\ line.Matches = 0
    /\ line.Exact_scores = 0
    /\ line.Total_points = 0
    /\ line.Avg_points_per_round = 0
    /\ \A r \in DOMAIN line.cells : line.cells[r] = [exact |-> 0, points |-> 0]

\* C3: while other users are scored, a user whose predictions were all
\* dropped has a row of zeros in the standings.
C3_ZeroRow ==
    Built =>
        \A i \in DOMAIN predictions :
            (/\ AllDropped(predictions[i])
             /\ \E j \in DOMAIN scored : IsScoredRow(scored[j])) =>
                \E n \in LinesOf(predictions[i]) : ZeroLine(standings.rows[n])

\* C4: the Place values of a table of N rows are 1..N in table order, and
\* no two rows, which are rows of distinct participants, share a Place.
C4_Places ==
    Built =>
        LET rows == standings.rows
        IN /\ \A n \in DOMAIN rows : rows[n].Place = n
           /\ \A n, m \in DOMAIN rows :
                n # m => /\ rows[n].Place # rows[m].Place
                         /\ <<rows[n].User_ID, rows[n].Name>>
                              # <<rows[m].User_ID, rows[m].Name>>

\* Two participants tied on points, exact scores and average.
C4_Witness ==
    /\ Built
    /\ \E n, m \in DOMAIN standings.rows :
         /\ n # m
         /\ standings.rows[n].Total_points = standings.rows[m].Total_points
         /\ standings.rows[n].Total_points > 0
         /\ standings.rows[n].Exact_scores = standings.rows[m].Exact_scores
         /\ standings.rows[n].Avg_points_per_round
              = standings.rows[m].Avg_points_per_round

\* The order of two rows of the table by points, exact scores and average,
\* all descending, and then by final(a, b).
RowOrder(a, b, final(_, _)) ==
    IF a.Total_points # b.Total_points THEN a.Total_points > b.Total_points
    ELSE IF a.Exact_scores # b.Exact_scores THEN a.Exact_scores > b.Exact_scores
    ELSE IF a.Avg_points_per_round # b.Avg_points_per_round
         THEN a.Avg_points_per_round > b.Avg_points_per_round
    ELSE final(a, b)

\* The last sort key as claimed: the user id when the table has ids, else
\* the normalised (lower-cased, whitespace-collapsed) name.
FinalKeyNormalized(a, b) ==
    IF use_user_id THEN ~StrLess(b.User_ID, a.User_ID)
    ELSE ~StrLess(NormalizeName(b.Name), NormalizeName(a.Name))

\* The last sort key by code point: user id, then name, or the name alone.
FinalKeyCodePoint(a, b) ==
    IF use_user_id
    THEN IF a.User_ID # b.User_ID THEN StrLess(a.User_ID, b.User_ID)
         ELSE StrLess(a.Name, b.Name)
    ELSE StrLess(a.Name, b.Name)

\* C5 (as claimed): rows are ordered by points, exact scores and average,
\* descending, then by user id, or without ids by the name compared
\* case-insensitively, so that 'alice' precedes 'Bob'.
C5_OrderCaseInsensitive ==
    Built =>
        \A n \in 1..(Len(standings.rows) - 1) :
            RowOrder(standings.rows[n], standings.rows[n + 1], FinalKeyNormalized)

\* C5 (amended): rows are ordered by points, exact scores and average,
\* descending, then by user id and name, or without ids by the name alone,
\* ascending by code point, so that 'Bob' precedes 'alice'.
C5_OrderCodePoint ==
    Built =>
        \A n \in 1..(Len(standings.rows) - 1) :
            RowOrder(standings.rows[n], standings.rows[n + 1], FinalKeyCodePoint)

\* Without ids, 'Bob' directly before 'alice', tied on the first three keys.
C5_Witness ==
    /\ Built
    /\ ~use_user_id
    /\ \E n \in 1..(Len(standings.rows) - 1) :
         LET a == standings.rows[n]
             b == standings.rows[n + 1]
         IN /\ a.Name = Name_Bob /\ b.Name = Name_alice
            /\ a.Total_points = b.Total_points /\ a.Total_points > 0
            /\ a.Exact_scores = b.Exact_scores
            /\ a.Avg_points_per_round = b.Avg_points_per_round

ScoredRowsOf(line) ==
    SelectSeq(scored, LAMBDA row : IsScoredRow(row) /\ SameUser(line, row))

\* C6: on every row of the standings, Total points is the sum of the points
\* of the user's scored predictions and Exact scores the number of those
\* that are exact.
C6_Totals ==
    Built =>
        \A n \in DOMAIN standings.rows :
            LET mine == ScoredRowsOf(standings.rows[n])
            IN /\ standings.rows[n].Total_points
                    = SumSeq([i \in DOMAIN mine |-> mine[i].points])
               /\ standings.rows[n].Exact_scores
                    = Cardinality({i \in DOMAIN mine : mine[i].is_exact})

\* A user with an exact and an inexact scored prediction: 4 + 2 points.
C6_Witness ==
    /\ Built
    /\ \E n \in DOMAIN standings.rows :
         /\ Len(ScoredRowsOf(standings.rows[n])) = 2
         /\ standings.rows[n].Total_points = 6
         /\ standings.rows[n].Exact_scores = 1

\* C7: without ids, prediction rows whose names are equal after
\* normalisation are aggregated on a single row of the standings.
C7_NormalizedNamesMerge ==
    (Built /\ ~use_user_id) =>
        \A i \in DOMAIN predictions :
            Cardinality({n \in DOMAIN standings.rows :
                           NormalizeName(standings.rows[n].Name)
                             = NormalizeName(predictions[i].user)}) = 1

ResultRowsFor(p) == {j \in DOMAIN results : results[j].match_id = p.match_id}

\* C8: only a prediction whose match_id has exactly one result row is
\* scored, and once; every other prediction is dropped and reported.
C8_AtMostOneScoredRow ==
    Scored =>
        /\ Len(SelectSeq(scored, IsScoredRow))
             = Cardinality({i \in DOMAIN predictions :
                              Cardinality(ResultRowsFor(predictions[i])) = 1})
        /\ \A i \in DOMAIN predictions :
             Cardinality(ResultRowsFor(predictions[i])) # 1 =>
                predictions[i].match_id \in Range(warning)

IsAscending(s) == \A k \in 1..(Len(s) - 1) : s[k] < s[k + 1]

\* C9 (as claimed): the round columns are the rounds of the results table,
\* ascending.
C9_RoundsOfResults ==
    Built =>
        /\ Range(standings.rounds) = {Val(results[j].round) : j \in DOMAIN results}
        /\ IsAscending(standings.rounds)

\* C9 (amended): the round columns are the rounds of the scored predictions
\* of the users on the table, ascending, and every row has a pair of cells
\* for each of them; a round with results only has no columns.
C9_RoundsOfScored ==
    Built =>
        /\ Range(standings.rounds)
             = {Val(scored[i].round) :
                  i \in {j \in DOMAIN scored : /\ IsScoredRow(scored[j])
                                               /\ LinesOf(scored[j]) # {}}}
        /\ IsAscending(standings.rounds)
        /\ \A n \in DOMAIN standings.rows :
             DOMAIN standings.rows[n].cells = Range(standings.rounds)

\* A round of the results without columns, beside a round with columns.
C9_Witness ==
    /\ Built
    /\ standings.rounds # <<>>
    /\ \E j \in DOMAIN results : Val(results[j].round) \notin Range(standings.rounds)

\* C10: every cell pair of a row holds the points and the number of exact
\* predictions of the user's scored predictions in that round, 0 without
\* any, and the points cells of a row add up to its Total points.
C10_RoundCells ==
    Built =>
        \A n \in DOMAIN standings.rows :
            LET line == standings.rows[n]
                mine == ScoredRowsOf(line)
                inRound(r) == SelectSeq(mine, LAMBDA row : row.round = Some(r))
            IN /\ \A r \in Range(standings.rounds) :
                    /\ line.cells[r].points
                         = SumSeq([i \in DOMAIN inRound(r) |-> inRound(r)[i].points])
                    /\ line.cells[r].exact
                         = Cardinality({i \in DOMAIN inRound(r) : inRound(r)[i].is_exact})
                    /\ inRound(r) = <<>> => line.cells[r] = [exact |-> 0, points |-> 0]
               /\ SumSeq([k \in DOMAIN standings.rounds |->
                            line.cells[standings.rounds[k]].points])
                    = line.Total_points

\* A user with 4 points in round 1 and none in round 2, and a user with
\* points in round 2.
C10_Witness ==
    /\ Built
    /\ standings.rounds = <<1, 2>>
    /\ \E n, m \in DOMAIN standings.rows :
         /\ standings.rows[n].cells[1] = [exact |-> 1, points |-> 4]
         /\ standings.rows[n].cells[2] = [exact |-> 0, points |-> 0]
         /\ standings.rows[n].Matches = 1
         /\ standings.rows[m].cells[2].points = 2

\* C19 as stated: a scored prediction earns exactly 2 points only when the
\* prediction and the result are both draws.
C19_TwoPointsOnlyDraws ==
    Scored =>
        \A i \in DOMAIN scored :
            (IsScoredRow(scored[i]) /\ scored[i].points = 2) =>
                /\ scored[i].predicted_winner = "D"
                /\ scored[i].actual_winner = "D"

\* C19: a scored prediction earns exactly 2 points exactly when its goal
\* difference equals the actual goal difference and its score is not the
\* exact score, whoever the winner is: draws with different scores, and
\* Home or Away wins by the same margin with different scores.
C19_TwoPointsSameDiff ==
    Scored =>
        \A i \in DOMAIN scored :
            IsScoredRow(scored[i]) =>
                LET r == scored[i]
                IN (r.points = 2) <=>
                     /\ r.predicted_home_goals - r.predicted_away_goals
                          = r.home_goals - r.away_goals
                     /\ (r.predicted_home_goals # r.home_goals
                          \/ r.predicted_away_goals # r.away_goals)

\* An Away win predicted 0:1 and played 1:2 earns 2 points.
C19_Witness ==
    /\ Scored
    /\ \E i \in DOMAIN scored :
         /\ IsScoredRow(scored[i])
         /\ scored[i].predicted_home_goals = 0 /\ scored[i].predicted_away_goals = 1
         /\ scored[i].home_goals = 1 /\ scored[i].away_goals = 2
         /\ scored[i].predicted_winner = "A"
         /\ scored[i].points = 2

\* C20: in every scored prediction has_diff implies has_winner and is_exact
\* implies has_diff, so has_winner and has_diff together hold exactly when
\* has_diff holds, and a row with has_diff has 2 or 4 points.
C20_FlagsNested ==
    Scored =>
        \A i \in DOMAIN scored :
            IsScoredRow(scored[i]) =>
                LET r == scored[i]
                IN /\ r.has_diff => r.has_winner
                   /\ r.is_exact => r.has_diff
                   /\ (r.has_winner /\ r.has_diff) <=> r.has_diff
                   /\ r.has_diff => r.points \in {2, 4}

\* A Home win predicted 1:0 and played 3:2: has_diff and has_winner hold,
\* is_exact does not, and the row has 2 points.
C20_Witness ==
    /\ Scored
    /\ \E i \in DOMAIN scored :
         /\ IsScoredRow(scored[i])
         /\ scored[i].predicted_home_goals = 1 /\ scored[i].predicted_away_goals = 0
         /\ scored[i].home_goals = 3 /\ scored[i].away_goals = 2
         /\ scored[i].has_diff /\ scored[i].has_winner /\ ~scored[i].is_exact
         /\ scored[i].points = 2

\* The predictions whose match_id has a result, and the match ids of the
\* others.
HasResult(p) == \E j \in DOMAIN results : results[j].match_id = p.match_id
Unresolved == {predictions[i].match_id : i \in {k \in DOMAIN predictions :
                                                    ~HasResult(predictions[k])}}

\* C13: when predictions name a match_id without a result, the run does not
\* fail; once scored, none of them has a scored row, the one warning lists
\* each such match_id once, the scored predictions are the ones scoring the
\* remaining predictions alone yields, and the finished run has exit
\* status 0.
C13_UnresolvedDropped ==
    (Unresolved # {}) =>
        /\ pc # "failed"
        /\ exit_status \in {NoStatus, Some(0)}
        /\ (pc = "done") => (exit_status = Some(0) /\ ~IsNA(output))
        /\ Scored =>
             /\ Range(warning) = Unresolved
             /\ Len(warning) = Cardinality(Unresolved)
             /\ \A i \in DOMAIN scored :
                  IsScoredRow(scored[i]) => Val(scored[i].match_id) \notin Unresolved
             /\ SelectSeq(scored, IsScoredRow)
                  = SelectSeq(ScorePredictions(SelectSeq(predictions, HasResult),
                                               results, use_user_id).scored,
                              IsScoredRow)

\* A finished run that dropped a prediction, scored another and warned.
C13_Witness ==
    /\ pc = "done"
    /\ exit_status = Some(0)
    /\ Unresolved # {}
    /\ warning # <<>>
    /\ \E i \in DOMAIN scored : IsScoredRow(scored[i])

\* The value a scored prediction takes for a field: the result's value, or
\* the prediction's where the result has none.
Authoritative(res_value, pred_value) ==
    IF ~IsNA(res_value) THEN res_value ELSE pred_value

\* C12: the round, home_team and away_team of every scored prediction are
\* those of its result wherever the result has a value, whatever the
\* prediction says, and those of the prediction only where the result has
\* none; the round columns of the table and the user's cells are those of
\* that round.
C12_ResultAuthoritative ==
    Scored =>
        \A i \in DOMAIN scored :
            IsScoredRow(scored[i]) =>
                LET row == scored[i]
                IN /\ \E k \in DOMAIN predictions :
                        /\ predictions[k].match_id = Val(row.match_id)
                        /\ predictions[k].user = row.user
                        /\ \A j \in DOMAIN results :
                             results[j].match_id = Val(row.match_id) =>
                                 /\ row.round = Authoritative(results[j].round,
                                                              predictions[k].round)
                                 /\ row.home_team = Authoritative(results[j].home_team,
                                                                  predictions[k].home_team)
                                 /\ row.away_team = Authoritative(results[j].away_team,
                                                                  predictions[k].away_team)
                   /\ Built =>
                        /\ Val(row.round) \in Range(standings.rounds)
                        /\ \A n \in LinesOf(row) :
                             /\ standings.rows[n].cells[Val(row.round)].points >= row.points
                             /\ \A j \in DOMAIN results :
                                  (results[j].match_id = Val(row.match_id)
                                   /\ ~IsNA(results[j].round)) =>
                                      standings.rounds = <<Val(results[j].round)>>

\* A prediction for round 1 of "Arsenal FC" against "Everton FC", scored
\* against a result of round 2 with home team "Arsenal" and no away team.
C12_Witness ==
    /\ Built
    /\ Len(predictions) = 1 /\ Len(results) = 1
    /\ predictions[1].round = Some(1)
    /\ results[1].round = Some(2)
    /\ results[1].home_team = Some("Arsenal")
    /\ IsNA(results[1].away_team)
    /\ \E i \in DOMAIN scored :
         /\ IsScoredRow(scored[i])
         /\ scored[i].round = Some(2)
         /\ scored[i].home_team = Some("Arsenal")
         /\ scored[i].away_team = Some("Everton FC")
    /\ standings.rounds = <<2>>

\* A cell that holds a non-negative integer.
IsNonNegativeInteger(cell) == Len(cell) = 1 /\ cell[1] >= 0

\* A prediction with a result whose goals are present, and a goal or round
\* field of the pair that is no non-negative integer.
InvalidField ==
    \E k \in DOMAIN predictions, j \in DOMAIN results :
        /\ predictions[k].match_id = results[j].match_id
        /\ ~IsNA(results[j].home_goals) /\ ~IsNA(results[j].away_goals)
        /\ \E cell \in {predictions[k].predicted_home_goals,
                         predictions[k].predicted_away_goals,
                         results[j].home_goals, results[j].away_goals,
                         Authoritative(results[j].round, predictions[k].round)} :
              ~IsNonNegativeInteger(cell)

\* C16: once scoring has run, a goal or round field that is negative,
\* fractional or no number has ended the run with an error, and every goal
\* and round of a scored prediction is a non-negative integer.
C16_NonNegativeIntegers ==
    (pc \notin {"start", "loaded"}) =>
        /\ InvalidField => (pc = "failed" /\ ~IsNA(error))
        /\ \A i \in DOMAIN scored :
             IsScoredRow(scored[i]) =>
                 /\ scored[i].predicted_home_goals >= 0
                 /\ scored[i].predicted_away_goals >= 0
                 /\ scored[i].home_goals >= 0
                 /\ scored[i].away_goals >= 0
                 /\ Val(scored[i].round) >= 0

\* The same for fields that are fractional or no number only: they end the
\* run with an error.
InvalidFieldNotNegative ==
    \E k \in DOMAIN predictions, j \in DOMAIN results :
        /\ predictions[k].match_id = results[j].match_id
        /\ ~IsNA(results[j].home_goals) /\ ~IsNA(results[j].away_goals)
        /\ \E cell \in {predictions[k].predicted_home_goals,
                         predictions[k].predicted_away_goals,
                         results[j].home_goals, results[j].away_goals,
                         Authoritative(results[j].round, predictions[k].round)} :
              Len(cell) # 1

FractionsAndTextRejected ==
    (pc \notin {"start", "loaded"} /\ InvalidFieldNotNegative) =>
        (pc = "failed" /\ ~IsNA(error))

\* A fatal condition of the two tables: no prediction at all, or a field
\* of a prediction and its result that cannot be coerced to an integer.
FatalInput == predictions = <<>> \/ InvalidFieldNotNegative

\* C15: the table is written only by a run whose loading, scoring and
\* building all finished without an error, and it is the table that was
\* built; a run that met a fatal error (missing required columns, values
\* that cannot be coerced, no prediction and no participant) has failed
\* with exit status 1 and has written nothing.
C15_WriteOnlyAfterAllStages ==
    /\ ~IsNA(output) =>
          /\ pc = "done"
          /\ IsNA(error)
          /\ output = Some(standings)
          /\ standings = BuildStandings(scored, use_user_id)
          /\ exit_status = Some(0)
    /\ (pc = "failed") <=> ~IsNA(error)
    /\ ~IsNA(error) =>
          /\ IsNA(output)
          /\ exit_status = Some(1)
          /\ standings = NoStandings
    /\ (pc \notin {"start", "loaded"} /\ FatalInput) => pc = "failed"

\* A run that ended on a fractional goal count, with status 1 and nothing
\* written.
C15_Witness ==
    /\ pc = "failed"
    /\ exit_status = Some(1)
    /\ IsNA(output)
    /\ error = <<"Merged data has non-integer values in", "predicted_home_goals">>
    /\ predictions # <<>>
    /\ predictions[1].predicted_home_goals = <<1, 5>>

\* Runs that ended on missing columns and on an empty predictions table.
C15_OtherFatalErrors ==
    \/ /\ pc = "failed"
       /\ error = <<"Result file", "is missing required columns", {"round"}>>
    \/ /\ pc = "failed"
       /\ error = <<"No predictions could be matched with results.">>

\* The distinct rounds of the scored predictions of the user of a row of
\* the table.
RoundsOf(line) ==
    {Val(ScoredRowsOf(line)[i].round) : i \in DOMAIN ScoredRowsOf(line)}

\* The rounds_played of the claim: the number of those rounds, at least 1.
Denominator(line) ==
    IF RoundsOf(line) = {} THEN 1 ELSE Cardinality(RoundsOf(line))

\* C11: on every row of the table, Avg points per round (kept to two
\* decimals, as the User Summary defines it) is Total points divided by the
\* number of distinct rounds in which the user has a scored prediction, 1
\* when there is none: it is the hundredth nearest to that quotient.
\* Rounds in which the user has only dropped predictions, and the
\* placeholder row, are not counted.
C11_AvgPerRoundPlayed ==
    Built =>
        \A n \in DOMAIN standings.rows :
            LET line == standings.rows[n]
                d == Denominator(line)
                gap == line.Avg_points_per_round * d - 100 * line.Total_points
            IN /\ 2 * gap <= d
               /\ 2 * gap >= -d
               /\ (ScoredRowsOf(line) = <<>>) => line.Avg_points_per_round = 0

\* A user with scored predictions in rounds 1 and 2 (4 and 1 points) and a
\* dropped prediction of round 3 has an average of 2.50, beside a user
\* whose only prediction was dropped, with an average of 0.
C11_Witness ==
    /\ Built
    /\ Len(predictions) = 4
    /\ Unresolved = {"M3"}
    /\ \E n, m \in DOMAIN standings.rows :
         /\ standings.rows[n].Name = Name_Bob
         /\ RoundsOf(standings.rows[n]) = {1, 2}
         /\ standings.rows[n].Total_points = 5
         /\ standings.rows[n].Avg_points_per_round = 250
         /\ standings.rows[m].Name = Name_alice
         /\ standings.rows[m].Matches = 0
         /\ standings.rows[m].Avg_points_per_round = 0

\* A user with 4 points over three rounds has an average of 1.33.
C11_WitnessThirds ==
    /\ Built
    /\ \E n \in DOMAIN standings.rows :
         /\ Cardinality(RoundsOf(standings.rows[n])) = 3
         /\ standings.rows[n].Total_points = 4
         /\ standings.rows[n].Avg_points_per_round = 133

\* The rows of the results file of a team pair, and of a round when a
\* round filter is given.
Candidates(home_team, away_team, override) ==
    {j \in DOMAIN results_data :
        /\ NormalizeTeam(results_data[j].home_team) = NormalizeTeam(home_team)
        /\ NormalizeTeam(results_data[j].away_team) = NormalizeTeam(away_team)
        /\ ~IsNA(override) => Strip(results_data[j].round) = DigitStr(Val(override))}

\* C14: every prediction row that was produced belongs to the one result
\* of its team pair (in the filtered round when a round filter is given)
\* and carries its match id; a line whose team pair has several results
\* and no round filter has produced no row and its fixture is recorded as
\* ambiguous; and only fixtures with several candidates are recorded.
C14_ResolveOnlyUnique ==
    (ipc \in {"blocks", "exit"}) =>
        /\ \A i \in DOMAIN new_rows :
             LET found == Candidates(new_rows[i].home_team, new_rows[i].away_team,
                                     round_override)
             IN /\ Cardinality(found) = 1
                /\ \A j \in found : results_data[j].match_id = new_rows[i].match_id
        /\ \A k \in DOMAIN skipped_matches :
             LET line == skipped_matches[k].parsed
             IN (IsNA(round_override)
                 /\ Cardinality(Candidates(line.home_team, line.away_team, NA)) > 1) =>
                    FixtureLabel(line.home_team, line.away_team, NA)
                        \in ambiguous_fixtures
        /\ \A label \in ambiguous_fixtures :
             Cardinality(Candidates(label[1], label[2], label[3])) > 1

\* A finished import without a round filter: "Man United - Chelsea" has
\* several results, is recorded as ambiguous and has no row, while
\* "Everton - Fulham" has one result and a row.
C14_Witness ==
    /\ ipc = "exit"
    /\ import_status = Some(0)
    /\ IsNA(round_override)
    /\ Cardinality(Candidates(Team_ManUnited, Team_Chelsea, NA)) > 1
    /\ FixtureLabel(Team_ManUnited, Team_Chelsea, NA) \in ambiguous_fixtures
    /\ \E k \in DOMAIN skipped_matches :
         skipped_matches[k].parsed.home_team = Team_ManUnited
    /\ \E i \in DOMAIN new_rows : new_rows[i].match_id = Mid_M4
    /\ \A i \in DOMAIN new_rows : new_rows[i].match_id = Mid_M4

\* A finished import with a round filter that leaves one of the two
\* results of "Man United - Chelsea": the row carries that result's id.
C14_WitnessFilter ==
    /\ ipc = "exit"
    /\ round_override = Some(2)
    /\ Cardinality(Candidates(Team_ManUnited, Team_Chelsea, NA)) = 2
    /\ Cardinality(Candidates(Team_ManUnited, Team_Chelsea, Some(2))) = 1
    /\ \E i \in DOMAIN new_rows : new_rows[i].match_id \in {Mid_M2, Mid_M3}

\* The identity key of a row: the user id and the match id when the row
\* has a user id, the normalised user name and the match id otherwise.
IdentityKey(row) ==
    IF StripLower(row.user_id) # <<>>
    THEN <<"id", StripLower(row.user_id), StripLower(row.match_id)>>
    ELSE <<"name", NormalizeName(row.user), StripLower(row.match_id)>>

IdentityKeys(rows) == {IdentityKey(rows[i]) : i \in DOMAIN rows}

\* C17: the merged rows hold at most one row per identity key with the
\* normalised name; a row with the key of a new row is a new row; and
\* every existing row whose key is not among the new rows is in the result
\* unchanged.
C17_OneRowPerIdentity ==
    (ipc = "merged") =>
        LET merged == Val(combined)
        IN /\ \A i, j \in DOMAIN merged :
                IdentityKey(merged[i]) = IdentityKey(merged[j]) => i = j
           /\ \A i \in DOMAIN merged :
                IdentityKey(merged[i]) \in IdentityKeys(new_rows) =>
                    merged[i] \in Range(new_rows)
           /\ \A k \in DOMAIN new_rows :
                IdentityKey(new_rows[k]) \in IdentityKeys(merged)
           /\ \A k \in DOMAIN existing_rows :
                IdentityKey(existing_rows[k]) \notin IdentityKeys(new_rows) =>
                    existing_rows[k] \in Range(merged)

\* The same with the key _row_key_from_values computes (the user name
\* stripped and lower-cased, inner whitespace kept), for existing rows of
\* distinct keys.
MergeByRowKey ==
    (ipc = "merged"
     /\ \A i, j \in DOMAIN existing_rows :
            RowKey(existing_rows[i]) = RowKey(existing_rows[j]) => i = j) =>
        LET merged == Val(combined)
            keys(rows) == {RowKey(rows[i]) : i \in DOMAIN rows}
        IN /\ \A i, j \in DOMAIN merged :
                RowKey(merged[i]) = RowKey(merged[j]) => i = j
           /\ \A i \in DOMAIN merged :
                RowKey(merged[i]) \in keys(new_rows) => merged[i] \in Range(new_rows)
           /\ \A k \in DOMAIN existing_rows :
                RowKey(existing_rows[k]) \notin keys(new_rows) =>
                    existing_rows[k] \in Range(merged)


(***************************************************************************)
(* Properties of update_from_text.main.                                    *)
(***************************************************************************)
PredictionsGiven == ~IsNA(update_args.predictions_text)

\* The status of the first stage that did not end with 0, or that of the
\* standings.
FirstStatus ==
    IF results_status # Some(0) THEN results_status
    ELSE IF PredictionsGiven /\ import_status # Some(0) THEN import_status
    ELSE exit_status

StagesInOrder ==
    /\ ipc # "idle" =>
           /\ PredictionsGiven
           /\ results_args = <<>>
           /\ results_status = Some(0)
    /\ pc # "idle" =>
           /\ results_args = <<>>
           /\ results_status = Some(0)
           /\ IF PredictionsGiven
              THEN ipc = "exit" /\ import_status = Some(0)
              ELSE ipc = "idle"
    /\ ~IsNA(update_status) <=> upc = "done"
    /\ upc = "done" => update_status = FirstStatus /\ ~IsNA(update_status)

\* C21: update_from_text.main runs the results import, then the
\* predictions import (only when --predictions-text is given), then the
\* standings: a stage is started only after every earlier stage has
\* ended with status 0, a stage that has ended is not run again, and the
\* status of the first stage that did not end with 0 is the status of the
\* update, no later stage having run.
C21_StagesInOrder ==
    /\ []StagesInOrder
    /\ [][/\ ipc # "idle" => UNCHANGED results_vars
          /\ pc # "idle" => UNCHANGED <<results_vars, import_vars>>]_vars

\* The predictions import returned 1 after the results import returned 0:
\* the update returned 1 and the standings were not started.
C21_Witness ==
    /\ upc = "done"
    /\ results_status = Some(0)
    /\ import_status = Some(1)
    /\ update_status = Some(1)
    /\ pc = "idle"

\* All three stages ran and the workbook was written.
C21_WitnessAll ==
    /\ upc = "done"
    /\ update_status = Some(0)
    /\ import_status = Some(0)
    /\ ~IsNA(output)

(***************************************************************************)
(* Properties of import_text_results.main.                                 *)
(***************************************************************************)
\* The keys of the matches of a text imported for a round.
TextKeys(text_lines, round_arg) ==
    {MatchKey(DigitStr(round_arg), line[1].home_team, line[1].away_team) :
        line \in {l \in Range(text_lines) : ~IsNA(l)}}

\* The first row of a file with a key, if the file has one.
FirstWithKey(file, key) ==
    LET hits == {i \in DOMAIN file : RowMatchKey(file[i]) = key}
    IN IF hits = {} THEN NA
       ELSE Some(file[CHOOSE i \in hits : \A j \in hits : i <= j])

\* Every row written for a key the file had with a match_id carries
\* that match_id.
IdsKept(before, after, keys) ==
    \A key \in keys :
        LET old == FirstWithKey(before, key)
        IN (~IsNA(old) /\ Val(old).match_id # <<>>) =>
               \E j \in DOMAIN after :
                   /\ RowMatchKey(after[j]) = key
                   /\ after[j].match_id = Val(old).match_id

\* C22: a run of import_text_results.main that imports a fixture whose key
\* the results file already has writes the row with the match_id the file
\* had for that key, and importing the same text for the same round once
\* more writes exactly the rows the first import wrote.
C22_ReimportKeepsIds ==
    [][(ImportResults /\ results_status' = Some(0)) =>
           LET args == Val(results_args)
           IN /\ IdsKept(results_csv, results_csv',
                         TextKeys(args.text_lines, args.round))
              /\ \A again \in MatchPrefixes :
                     AllRows(results_csv', ParseMatches(args.text_lines),
                             args.round, again) = results_csv']_vars

\* A fixture of the file was imported again with another spelling and
\* score, and its row still carries M1.
C22_Witness ==
    /\ results_status = Some(0)
    /\ \E i \in DOMAIN results_csv :
           results_csv[i] = ResultFileRow(Mid_M1, <<49>>, Team_ManUnited,
                                          Team_Chelsea, 1, 0)

UniqueMatchIds(file) ==
    \A i, j \in DOMAIN file : file[i].match_id = file[j].match_id => i = j

UniqueMatchKeys(file) ==
    \A i, j \in DOMAIN file : RowMatchKey(file[i]) = RowMatchKey(file[j]) => i = j

\* The match_ids a run added are the prefix followed by a number above
\* every number the file had with that prefix.
NewIdsAbove(before, after, prefix) ==
    \A j \in DOMAIN after :
        (\A i \in DOMAIN before : before[i].match_id # after[j].match_id) =>
            /\ MatchNumber(after[j].match_id, prefix) > 0
            /\ after[j].match_id =
                   prefix \o NumberStr(MatchNumber(after[j].match_id, prefix))
            /\ \A i \in DOMAIN before :
                   MatchNumber(before[i].match_id, prefix)
                       < MatchNumber(after[j].match_id, prefix)

\* The rows of the fixtures a run did not import are the same rows in the
\* same order.
OthersKept(before, after, keys) ==
    SelectSeq(after, LAMBDA row : RowMatchKey(row) \notin keys)
        = SelectSeq(before, LAMBDA row : RowMatchKey(row) \notin keys)

\* C23: after any sequence of runs of import_text_results.main from a
\* results file with unique match_ids and unique fixture keys, no two rows
\* have the same match_id and no two rows have the same (round, normalized
\* home team, normalized away team) key; every match_id a run generates is
\* the prefix followed by a number above every number the file had with
\* that prefix, and the rows of the other fixtures are kept unchanged.
C23_UniqueIdsAndKeys ==
    /\ [](UniqueMatchIds(results_csv) /\ UniqueMatchKeys(results_csv))
    /\ [][(ImportResults /\ results_status' = Some(0)) =>
              LET args == Val(results_args)
              IN /\ NewIdsAbove(results_csv, results_csv', args.match_prefix)
                 /\ OthersKept(results_csv, results_csv',
                               TextKeys(args.text_lines, args.round))]_vars

\* A run added a fixture to the file that held M12: the new row is M13 and
\* the row M12 is as it was.
C23_Witness ==
    /\ results_status = Some(0)
    /\ \E i, j \in DOMAIN results_csv :
           /\ results_csv[i] = ResultFileRow(<<77, 49, 50>>, <<49>>,
                                   Team_Everton, Team_Fulham, 3, 1)
           /\ results_csv[j].match_id = <<77, 49, 51>>

====
